---- MODULE Spec2Model ----
(***************************************************************************)
(* A model of the graph construction engine of WikiKnowlegeGraph:          *)
(*   - lib/sanitization.ts    (input validation)                           *)
(*   - lib/cache.ts           (localStorage cache with expiry)             *)
(*   - lib/sparql.ts          (getWikidataId, fetchBatchConnections)       *)
(*   - lib/graphGenerator.ts  (generateGraph, the layered crawl)           *)
(*   - api.ts                 (cachedFetch, the in-memory response cache)  *)
(*                                                                         *)
(* Strings are sequences of one-character strings, so that trim,           *)
(* toUpperCase, the identifier pattern and the edge-id concatenation are   *)
(* computed the way the code computes them.  Times are in milliseconds,    *)
(* as in the code.  Display-only node and edge fields (group, shape, size, *)
(* image, title, arrows, category) are left out: no step reads them.       *)
(***************************************************************************)
EXTENDS Integers, Sequences, FiniteSets, TLC

(***************************************************************************)
(* Bounds of the model.                                                    *)
(***************************************************************************)
\* times the clock may jump ahead
MaxTicks == 2
\* room of a storage that is nearly full
SmallQuota == 5
\* cachedFetch calls made
MaxCalls == 2
\* edges of a list handed to the functions of the view
MaxEdges == 3
\* calls of the search hook
MaxSearches == 3

(***************************************************************************)
(* Strings.                                                                *)
(***************************************************************************)
Digits == {"0", "1", "2", "3", "4", "5", "6", "7", "8", "9"}

Q1 == <<"Q", "1">>
Q2 == <<"Q", "2">>
Q3 == <<"Q", "3">>

\* String.prototype.toUpperCase on the letters the inputs use
UpperChar(c) ==
    CASE c = "q" -> "Q"
      [] c = "a" -> "A"
      [] c = "b" -> "B"
      [] c = "k" -> "K"
      [] OTHER -> c

ToUpperCase(s) == [i \in 1..Len(s) |-> UpperChar(s[i])]

RECURSIVE TrimStart(_)
TrimStart(s) ==
    IF s # <<>> /\ Head(s) = " " THEN TrimStart(Tail(s)) ELSE s

RECURSIVE TrimEnd(_)
TrimEnd(s) ==
    IF s # <<>> /\ s[Len(s)] = " " THEN TrimEnd(SubSeq(s, 1, Len(s) - 1)) ELSE s

\* String.prototype.trim
Trim(s) == TrimEnd(TrimStart(s))

\* a value that is not a string (a number in an entity list)
NonString == <<"#number">>

RECURSIVE Flatten(_)
\* Array.prototype.push(...list) over a list of lists
Flatten(ss) == IF ss = <<>> THEN <<>> ELSE Head(ss) \o Flatten(Tail(ss))

Range(s) == {s[i] : i \in 1..Len(s)}

Min(a, b) == IF a <= b THEN a ELSE b

(***************************************************************************)
(* lib/sanitization.ts                                                     *)
(***************************************************************************)
MAX_NAME_LENGTH == 200
MAX_ENTITIES == 10
MIN_DEPTH == 1
MAX_DEPTH == 10

Ok(v) == [ok |-> TRUE, val |-> v, err |-> "" ]
Err(e) == [ok |-> FALSE, val |-> <<>>, err |-> e]

\* sanitizeEntityName: the result is the escaped name; the escapes only
\* touch backslash, quotes, newline, CR and tab, which no modelled name holds
sanitizeEntityName(name) ==
    IF name = <<>> \/ name = NonString
    THEN Err("Entity name must be a non-empty string")
    ELSE IF Trim(name) = <<>>
    THEN Err("Entity name cannot be empty or whitespace only")
    ELSE IF Len(Trim(name)) > MAX_NAME_LENGTH
    THEN Err("Entity name is too long (max 200 characters)")
    ELSE Ok(Trim(name))

\* /^Q\d+$/
isValidQid(qid) ==
    /\ qid # <<>>
    /\ qid # NonString
    /\ Len(qid) >= 2
    /\ qid[1] = "Q"
    /\ \A i \in 2..Len(qid) : qid[i] \in Digits

\* a sanitizer that lets any non-empty identifier through
sanitizeQidUnchecked(qid) ==
    IF qid = <<>> \/ qid = NonString
    THEN Err("QID must be a non-empty string")
    ELSE Ok(ToUpperCase(Trim(qid)))

sanitizeQid(qid) ==
    IF qid = <<>> \/ qid = NonString
    THEN Err("QID must be a non-empty string")
    ELSE IF ~isValidQid(ToUpperCase(Trim(qid)))
    THEN Err("Invalid QID format")
    ELSE Ok(ToUpperCase(Trim(qid)))

\* A depth is [isNum, twice]: the number twice/2, or NaN / a non-number.
\* Math.floor(twice/2) = twice \div 2.
validateDepth(d) ==
    IF ~d.isNum
    THEN Err("Depth must be a number")
    ELSE IF d.twice \div 2 < MIN_DEPTH
    THEN Err("Depth must be at least 1")
    ELSE IF d.twice \div 2 > MAX_DEPTH
    THEN Err("Depth cannot exceed 10 (performance limit)")
    ELSE [ok |-> TRUE, val |-> d.twice \div 2, err |-> ""]

RECURSIVE UniqueTrimmed(_, _)
\* the loop of validateEntityList: trimmed, empty ones dropped, first
\* occurrence kept
UniqueTrimmed(entities, unique) ==
    IF entities = <<>> THEN unique
    ELSE LET trimmed == Trim(Head(entities)) IN
         IF trimmed = <<>> \/ trimmed \in Range(unique)
         THEN UniqueTrimmed(Tail(entities), unique)
         ELSE UniqueTrimmed(Tail(entities), Append(unique, trimmed))

RECURSIVE FirstNonString(_)
\* index of the first element that is not a string, 0 if none
FirstNonString(entities) ==
    IF entities = <<>> THEN 0
    ELSE IF Head(entities) = NonString THEN 1
    ELSE LET r == FirstNonString(Tail(entities)) IN IF r = 0 THEN 0 ELSE r + 1

validateEntityList(entities) ==
    IF Len(entities) = 0
    THEN Err("At least one entity must be provided")
    ELSE IF Len(entities) > MAX_ENTITIES
    THEN Err("Too many entities")
    ELSE IF FirstNonString(entities) # 0
    THEN Err("All entities must be strings")
    ELSE IF UniqueTrimmed(entities, <<>>) = <<>>
    THEN Err("At least one non-empty entity must be provided")
    ELSE Ok(UniqueTrimmed(entities, <<>>))

(***************************************************************************)
(* lib/cache.ts: the localStorage cache.  A key is <<prefix, rest>>; a     *)
(* stored item is the entry {data, expires} (JSON.stringify followed by    *)
(* JSON.parse gives back the strings, nulls and arrays of plain records    *)
(* that are stored here).  localStorage.setItem fails when the items would *)
(* take more room than the quota; an item takes one unit plus one per      *)
(* element of its data.                                                    *)
(***************************************************************************)
QID_CACHE_PREFIX == "wg_qid_"
CONN_CACHE_PREFIX == "wg_conn_v2_"
QID_TTL == 24 * 60 * 60 * 1000
CONN_TTL == 60 * 60 * 1000

\* the sentinel getWikidataId stores for "no result"
NullSentinel == <<"n", "u", "l", "l">>

ItemSize(entry) == 1 + Len(entry.data)

RECURSIVE SumSizes(_, _)
SumSizes(st, keys) ==
    IF keys = {} THEN 0
    ELSE LET k == CHOOSE x \in keys : TRUE
         IN ItemSize(st[k]) + SumSizes(st, keys \ {k})

\* whether localStorage.setItem(key, entry) succeeds
Fits(st, key, entry, q) ==
    SumSizes(st, DOMAIN st \ {key}) + ItemSize(entry) <= q

PutItem(st, key, entry) ==
    [k \in DOMAIN st \cup {key} |-> IF k = key THEN entry ELSE st[k]]

RemoveItems(st, keys) == [k \in DOMAIN st \ keys |-> st[k]]

IsEngineKey(key) == key[1] \in {QID_CACHE_PREFIX, CONN_CACHE_PREFIX}

\* a get that takes the entry for expired at the instant it expires
getFromStorageEarly(st, key, t) ==
    IF key \notin DOMAIN st
    THEN [hit |-> FALSE, data |-> <<>>, store |-> st]
    ELSE IF t >= st[key].expires
    THEN [hit |-> FALSE, data |-> <<>>, store |-> RemoveItems(st, {key})]
    ELSE [hit |-> TRUE, data |-> st[key].data, store |-> st]

\* getFromStorage: [hit, data, store]
getFromStorage(st, key, t) ==
    IF key \notin DOMAIN st
    THEN [hit |-> FALSE, data |-> <<>>, store |-> st]
    ELSE IF t > st[key].expires
    THEN [hit |-> FALSE, data |-> <<>>, store |-> RemoveItems(st, {key})]
    ELSE [hit |-> TRUE, data |-> st[key].data, store |-> st]

\* an eviction that takes the unexpired entries as well
evictExpiredAndLive(st, t) ==
    RemoveItems(st, {k \in DOMAIN st : IsEngineKey(k)})

evictExpired(st, t) ==
    RemoveItems(st, {k \in DOMAIN st : IsEngineKey(k) /\ t > st[k].expires})

\* a clearing that removes nothing
clearAllCachesKept(st) == st

clearAllCaches(st) == RemoveItems(st, {k \in DOMAIN st : IsEngineKey(k)})

\* setInStorage: the store after the call
setInStorage(st, key, data, ttl, t, q) ==
    LET entry == [data |-> data, expires |-> t + ttl]
        s2 == evictExpired(st, t)
        s3 == clearAllCaches(s2)
    IN  IF Fits(st, key, entry, q) THEN PutItem(st, key, entry)
        ELSE IF Fits(s2, key, entry, q) THEN PutItem(s2, key, entry)
        ELSE IF Fits(s3, key, entry, q) THEN PutItem(s3, key, entry)
        ELSE s3

getCachedQid(st, name, t) == getFromStorage(st, <<QID_CACHE_PREFIX, name>>, t)

setCachedQid(st, name, qid, t, q) ==
    setInStorage(st, <<QID_CACHE_PREFIX, name>>, qid, QID_TTL, t, q)

getCachedConnections(st, qid, t) ==
    getFromStorage(st, <<CONN_CACHE_PREFIX, qid>>, t)

setCachedConnections(st, qid, conns, t, q) ==
    setInStorage(st, <<CONN_CACHE_PREFIX, qid>>, conns, CONN_TTL, t, q)

(***************************************************************************)
(* State.                                                                  *)
(***************************************************************************)
VARIABLES
    \* the environment
    store,              \* localStorage
    quota,              \* room the storage gives
    now,                \* Date.now()
    ticks,              \* clock jumps taken
    inflight,           \* querySparql calls that have not returned yet
    \* generateGraph: its arguments, locals and position
    pc,
    table,              \* the depth configuration in force
    request,
    names,
    depth,
    nameIdx,
    nodes,
    edges,
    edgeIds,
    processedIds,
    initialEntityIds,
    currentLayerIds,
    currentDepth,
    toProcess,
    batchStart,         \* i of the batch loop, counted from 0
    allNewConnections,
    error,
    \* fetchBatchConnections: locals live across its await
    uncachedQids,
    cachedConnections,
    \* what a run has done so far (read by the properties only)
    validated,          \* the run got past validation
    queries,            \* querySparql calls issued by the run
    candidates,         \* the level's candidates before truncation
    fetchedIds,         \* identifiers passed to fetchBatchConnections in the level
    resolved,           \* identifiers the names resolved to
    levelLog,           \* dispatch / return / delay steps of the level
    levelsDone,         \* per finished level: what was selected, fetched, returned
    lastBatch,          \* the last fetchBatchConnections call: its outcome
    \* the persistent cache used on its own (read by the properties only)
    lastGet,            \* the last getFromStorage call: what it found and did
    lastSet,            \* the last setInStorage call: what it tried and did
    \* api.ts
    responseCache,      \* key -> [data, timestamp]
    pending,            \* cachedFetch calls waiting for their producer
    started,            \* cachedFetch calls so far
    lastCompleted,      \* per key: the last result stored and when
    lastReturn,         \* the last cachedFetch call that returned: its outcome
    callKeys,           \* the key of every cachedFetch call so far, in order
    \* lib/sparql.ts used on its own (read by the properties only)
    lastLookup,         \* the last getWikidataId call: what it found and did
    answers,            \* per name: how its last lookup query ended
    lastFetch,          \* the last fetchBatchConnections call: what it found and did
    written,            \* the last call whose query succeeded: what it wrote back
    \* the functions of the view, applied to an argument
    arg,
    result,
    \* hooks/useSearch.ts
    results,            \* the displayed results
    isSearching,
    searchError,
    abortController,    \* abortController.current: a controller's number, 0 for null
    aborted,            \* the controllers abort() was called on
    searches,           \* search calls waiting for searchEntities
    issued,             \* search calls so far
    lastApplied         \* the last response applied: whose, and whether it was the latest

envVars == <<store, quota, now, ticks, inflight>>
runVars == <<pc, table, request, names, depth, nameIdx, nodes, edges, edgeIds,
             processedIds, initialEntityIds, currentLayerIds, currentDepth,
             toProcess, batchStart, allNewConnections, error, uncachedQids,
             cachedConnections>>
histVars == <<validated, queries, candidates, fetchedIds, resolved,
              levelLog, levelsDone, lastBatch>>
cacheVars == <<lastGet, lastSet>>
respVars == <<responseCache, pending, started, lastCompleted, lastReturn,
             callKeys>>
sparqlVars == <<lastLookup, answers, lastFetch, written>>
pureVars == <<arg, result>>
searchVars == <<results, isSearching, searchError, abortController, aborted,
                searches, issued, lastApplied>>
vars == <<envVars, runVars, histVars, cacheVars, respVars, sparqlVars, pureVars,
          searchVars>>

(***************************************************************************)
(* lib/graphGenerator.ts: configuration.                                   *)
(***************************************************************************)
BATCH_RATE_LIMIT == 500

\* the table of the source, with its numbers
DEPTH_CONFIG ==
    [d \in 1..10 |->
        CASE d = 1  -> [max_nodes_per_layer |-> 50, batch_size |-> 50]
          [] d = 2  -> [max_nodes_per_layer |-> 40, batch_size |-> 45]
          [] d = 3  -> [max_nodes_per_layer |-> 30, batch_size |-> 40]
          [] d = 4  -> [max_nodes_per_layer |-> 25, batch_size |-> 35]
          [] d = 5  -> [max_nodes_per_layer |-> 20, batch_size |-> 30]
          [] d = 6  -> [max_nodes_per_layer |-> 15, batch_size |-> 25]
          [] d = 7  -> [max_nodes_per_layer |-> 12, batch_size |-> 20]
          [] d = 8  -> [max_nodes_per_layer |-> 10, batch_size |-> 15]
          [] d = 9  -> [max_nodes_per_layer |-> 8,  batch_size |-> 12]
          [] d = 10 -> [max_nodes_per_layer |-> 5,  batch_size |-> 10]]

\* the same shape (sizes falling with the level, batch_size never below
\* max_nodes_per_layer) at a size a layer of three identifiers exceeds
SCALED_CONFIG ==
    [d \in 1..10 |->
        IF d = 1 THEN [max_nodes_per_layer |-> 2, batch_size |-> 2]
                 ELSE [max_nodes_per_layer |-> 1, batch_size |-> 2]]

\* a table whose layers take more than one batch: the batch loop and its
\* delay do not depend on the table's numbers
TIGHT_CONFIG ==
    [d \in 1..10 |->
        IF d = 1 THEN [max_nodes_per_layer |-> 2, batch_size |-> 1]
                 ELSE [max_nodes_per_layer |-> 1, batch_size |-> 1]]

CrawlTables == {DEPTH_CONFIG, SCALED_CONFIG, TIGHT_CONFIG}

getDepthConfig(d) == IF d \in DOMAIN table THEN table[d] ELSE table[3]

\* shuffleArray(arr).slice(0, n): any n elements of arr in any order
ShuffledSlice(arr, n) ==
    {[i \in 1..n |-> arr[p[i]]] :
        p \in {f \in [1..n -> 1..Len(arr)] :
                  \A i, j \in 1..n : i # j => f[i] # f[j]}}

\* arr.filter((id) => !excluded.has(id))
RECURSIVE FilterOut(_, _)
FilterOut(arr, excluded) ==
    IF arr = <<>> THEN <<>>
    ELSE IF Head(arr) \in excluded THEN FilterOut(Tail(arr), excluded)
    ELSE <<Head(arr)>> \o FilterOut(Tail(arr), excluded)

\* arr.slice(from, to), from counted from 0
Slice(arr, from, to) == SubSeq(arr, from + 1, Min(to, Len(arr)))

(***************************************************************************)
(* The transport (querySparql) and what it may answer.                     *)
(***************************************************************************)
NameA == <<"a">>
NameB == <<"b">>
LongName == [i \in 1..(MAX_NAME_LENGTH + 1) |-> "x"]

Ids == {Q1, Q2, Q3}
\* a target the identifier pattern rejects
BadTarget == <<"Q", "x">>
LabelL == <<"L">>
LabelK == <<"k">>
LinkLabel == <<"l", "i", "n", "k">>

\* The rows a batch answer is made of; an empty targetLabel or propLabel is
\* a missing one.
Row(src, tgt, tl, pl) ==
    [source |-> src, target |-> tgt, targetLabel |-> tl, propLabel |-> pl]

Rows ==
    {Row(src, tgt, LabelL, LabelK) : src \in Ids, tgt \in Ids}
        \cup { Row(Q1, Q2, LabelL, <<>>), Row(Q1, Q2, <<>>, LabelK),
               Row(Q1, BadTarget, LabelL, LabelK) }

\* The answers tried: no row, every single row, and some of two rows (the
\* same row twice, two labels between one pair, two targets, a loop back)
BatchAnswers ==
    {<<>>} \cup {<<r>> : r \in Rows}
        \cup { <<Row(Q1, Q2, LabelL, LabelK), Row(Q1, Q2, LabelL, LabelK)>>,
               <<Row(Q1, Q2, LabelL, LabelK), Row(Q1, Q2, LabelL, <<>>)>>,
               <<Row(Q1, Q2, LabelL, LabelK), Row(Q1, Q3, LabelL, LabelK)>>,
               <<Row(Q2, Q3, LabelL, LabelK), Row(Q2, Q1, LabelL, LabelK)>>,
               <<Row(Q1, BadTarget, LabelL, LabelK), Row(Q1, Q3, LabelL, LabelK)>> }

BatchOutcomes ==
    {[failed |-> TRUE, rows |-> <<>>]}
        \cup {[failed |-> FALSE, rows |-> r] : r \in BatchAnswers}

\* LIMIT 1: no row, or the identifier of the one item found
LookupOutcomes ==
    {[failed |-> TRUE, rows |-> <<>>]}
        \cup {[failed |-> FALSE, rows |-> r] : r \in {<<>>} \cup {<<q>> : q \in Ids}}

(***************************************************************************)
(* lib/sparql.ts: getWikidataId.  A result of <<>> stands for null.        *)
(***************************************************************************)
\* lines 167-178, up to the query: [store, returns, value]
getWikidataIdBefore(st, name, t) ==
    LET c == getCachedQid(st, name, t) IN
    [store |-> c.store,
     returns |-> c.hit \/ ~sanitizeEntityName(name).ok,
     value |-> IF c.hit /\ c.data # NullSentinel THEN c.data ELSE <<>>]

\* a lookup that remembers no empty answer
getWikidataIdAfterForgetful(st, name, outcome, t, q) ==
    IF outcome.failed \/ outcome.rows = <<>>
    THEN [store |-> st, value |-> <<>>]
    ELSE [store |-> setCachedQid(st, name, outcome.rows[1], t, q),
          value |-> outcome.rows[1]]

\* lines 188-201, after the query: [store, value]
getWikidataIdAfter(st, name, outcome, t, q) ==
    IF outcome.failed
    THEN [store |-> st, value |-> <<>>]
    ELSE IF outcome.rows # <<>>
    THEN [store |-> setCachedQid(st, name, outcome.rows[1], t, q),
          value |-> outcome.rows[1]]
    ELSE [store |-> setCachedQid(st, name, NullSentinel, t, q), value |-> <<>>]

(***************************************************************************)
(* lib/sparql.ts: fetchBatchConnections.                                   *)
(***************************************************************************)
\* the cache loop: [store, uncached, cached]
RECURSIVE CacheScan(_, _, _)
CacheScan(qids, st, t) ==
    IF qids = <<>> THEN st
    ELSE LET c == getCachedConnections(st.store, Head(qids), t)
         IN CacheScan(Tail(qids),
                [store |-> c.store,
                 uncached |-> IF c.hit THEN st.uncached
                              ELSE Append(st.uncached, Head(qids)),
                 cached |-> IF c.hit THEN st.cached \o c.data ELSE st.cached],
                t)

\* the connection built from one row
Connection(res) ==
    [source |-> res.source,
     target |-> res.target,
     target_label |-> IF res.targetLabel = <<>> THEN res.target ELSE res.targetLabel,
     label |-> IF res.propLabel = <<>> THEN LinkLabel ELSE res.propLabel]

\* the loop over the rows: rows with an invalid target are skipped
RECURSIVE AllConnections(_)
AllConnections(bindings) ==
    IF bindings = <<>> THEN <<>>
    ELSE IF ~isValidQid(Head(bindings).target) THEN AllConnections(Tail(bindings))
    ELSE <<Connection(Head(bindings))>> \o AllConnections(Tail(bindings))

RECURSIVE BySource(_, _)
BySource(conns, qid) ==
    IF conns = <<>> THEN <<>>
    ELSE IF Head(conns).source = qid THEN <<Head(conns)>> \o BySource(Tail(conns), qid)
    ELSE BySource(Tail(conns), qid)

\* the keys of connectionsBySource, in insertion order
RECURSIVE Keys(_, _)
Keys(qids, seen) ==
    IF qids = <<>> THEN seen
    ELSE IF Head(qids) \in Range(seen) THEN Keys(Tail(qids), seen)
    ELSE Keys(Tail(qids), Append(seen, Head(qids)))

\* a write-back that skips the sources without a connection
RECURSIVE WriteBackNonEmpty(_, _, _, _, _)
WriteBackNonEmpty(qids, conns, st, t, q) ==
    IF qids = <<>> THEN st
    ELSE IF BySource(conns, Head(qids)) = <<>>
    THEN WriteBackNonEmpty(Tail(qids), conns, st, t, q)
    ELSE WriteBackNonEmpty(Tail(qids), conns,
            setCachedConnections(st, Head(qids), BySource(conns, Head(qids)), t, q),
            t, q)

\* the write-back loop
RECURSIVE WriteBack(_, _, _, _, _)
WriteBack(qids, conns, st, t, q) ==
    IF qids = <<>> THEN st
    ELSE WriteBack(Tail(qids), conns,
            setCachedConnections(st, Head(qids), BySource(conns, Head(qids)), t, q),
            t, q)

\* a failed query that loses the cached connections
OnQueryErrorEmpty(cached) == [thrown |-> FALSE, connections |-> <<>>]

\* a failed query that is thrown on to the caller
OnQueryErrorRethrow(cached) == [thrown |-> TRUE, connections |-> cached]

\* what fetchBatchConnections returns when the query failed
OnQueryError(cached) == [thrown |-> FALSE, connections |-> cached]

\* the end of fetchBatchConnections, once the query has answered:
\* [thrown, connections, store]
FetchResult(outcome, uncached, cached, st, t, q) ==
    IF outcome.failed
    THEN [thrown |-> OnQueryError(cached).thrown,
          connections |-> OnQueryError(cached).connections,
          store |-> st]
    ELSE [thrown |-> FALSE,
          connections |-> cached \o AllConnections(outcome.rows),
          store |-> WriteBack(Keys(uncached, <<>>), AllConnections(outcome.rows),
                              st, t, q)]

(***************************************************************************)
(* lib/graphGenerator.ts: generateGraph.                                   *)
(***************************************************************************)
ERR_NO_INPUT == "Must provide either names or qids"
ERR_NO_SEED == "Could not resolve any entities"

\* the requests tried: names / qids absent or a list, depth a number or not
Req(hn, n, hq, q, isNum, twice) ==
    [hasNames |-> hn, names |-> n, hasQids |-> hq, qids |-> q,
     depth |-> [isNum |-> isNum, twice |-> twice]]

Requests ==
    { Req(FALSE, <<>>, TRUE, <<Q1>>, TRUE, 2),
      Req(FALSE, <<>>, TRUE, <<Q1>>, TRUE, 5),
      Req(FALSE, <<>>, TRUE, <<<<"q", "1">>, <<" ", "Q", "1">>, Q2>>, TRUE, 4),
      Req(TRUE, <<NameA>>, FALSE, <<>>, TRUE, 4),
      Req(TRUE, <<NameA, NameB>>, TRUE, <<Q1>>, TRUE, 2),
      Req(TRUE, <<NameA, LongName>>, FALSE, <<>>, TRUE, 2),
      Req(TRUE, <<LongName>>, FALSE, <<>>, TRUE, 2),
      Req(TRUE, <<NameA>>, TRUE, <<<<"4", "2">>>>, TRUE, 2),
      Req(TRUE, <<NameA>>, TRUE, <<Q1, NonString>>, TRUE, 2),
      Req(TRUE, <<<<" ">>>>, TRUE, <<Q1>>, TRUE, 2),
      Req(TRUE, <<>>, TRUE, <<Q1>>, TRUE, 2),
      Req(FALSE, <<>>, TRUE, [i \in 1..(MAX_ENTITIES + 1) |-> Q1], TRUE, 2),
      Req(FALSE, <<>>, FALSE, <<>>, TRUE, 2),
      Req(TRUE, <<NameA>>, TRUE, <<Q1>>, FALSE, 0),
      Req(TRUE, <<NameA>>, TRUE, <<Q1>>, TRUE, 1),
      Req(TRUE, <<NameA>>, TRUE, <<Q1>>, TRUE, 22) }

\* lines 45-54: [ok, err, names, qids, depth]
RECURSIVE SanitizeAll(_)
SanitizeAll(rawQids) ==
    IF rawQids = <<>> THEN Ok(<<>>)
    ELSE LET h == sanitizeQid(Head(rawQids))
             r == SanitizeAll(Tail(rawQids))
         IN IF ~h.ok THEN h ELSE IF ~r.ok THEN r ELSE Ok(<<h.val>> \o r.val)

Validate(req) ==
    LET vn == IF req.hasNames THEN validateEntityList(req.names) ELSE Ok(<<>>)
        vq == IF req.hasQids THEN validateEntityList(req.qids) ELSE Ok(<<>>)
        vd == validateDepth(req.depth)
        sq == SanitizeAll(vq.val)
        bad(e) == [ok |-> FALSE, err |-> e, names |-> <<>>, qids |-> <<>>, depth |-> 0]
    IN  IF ~vn.ok THEN bad(vn.err)
        ELSE IF ~vq.ok THEN bad(vq.err)
        ELSE IF ~vd.ok THEN bad(vd.err)
        ELSE IF vn.val = <<>> /\ vq.val = <<>> THEN bad(ERR_NO_INPUT)
        ELSE IF ~sq.ok THEN bad(sq.err)
        ELSE [ok |-> TRUE, err |-> "", names |-> vn.val, qids |-> sq.val,
              depth |-> vd.val]

PutNode(ns, id, node) ==
    [k \in DOMAIN ns \cup {id} |-> IF k = id THEN node ELSE ns[k]]

\* lines 65-78: the placeholder nodes of the supplied identifiers
RECURSIVE SeedNodes(_, _)
SeedNodes(qids, ns) ==
    IF qids = <<>> THEN ns
    ELSE SeedNodes(Tail(qids),
            PutNode(ns, Head(qids),
                [id |-> Head(qids), label |-> Head(qids), isInitialEntity |-> TRUE]))

\* lines 84-103: what a resolved (or unresolved) name does to the seeds
\* [nodes, initialEntityIds, currentLayerIds]
ApplyResolved(name, found, qid) ==
    IF ~found \/ qid = <<>>
    THEN [nodes |-> nodes, initialEntityIds |-> initialEntityIds,
          currentLayerIds |-> currentLayerIds]
    ELSE IF qid \notin DOMAIN nodes
    THEN [nodes |-> PutNode(nodes, qid,
                        [id |-> qid, label |-> name, isInitialEntity |-> TRUE]),
          initialEntityIds |-> initialEntityIds \cup {qid},
          currentLayerIds |-> Append(currentLayerIds, qid)]
    ELSE [nodes |-> [nodes EXCEPT ![qid].label = name],
          initialEntityIds |-> initialEntityIds,
          currentLayerIds |-> currentLayerIds]

\* an id that leaves the label out
EdgeIdUnlabelled(src, tgt, label) == src \o <<"-">> \o tgt

\* line 179
EdgeId(src, tgt, label) == src \o <<"-">> \o tgt \o <<"-">> \o label

\* a merge that appends every connection's edge
IsNewEdgeAlways(edgeId, seen) == TRUE

\* line 180
IsNewEdge(edgeId, seen) == edgeId \notin seen

\* a target node that carries the seed flag
TargetNodeFlagged(conn) ==
    [id |-> conn.target, label |-> conn.target_label, isInitialEntity |-> TRUE]

\* lines 166-174: the node made for a connection's target
TargetNode(conn) ==
    [id |-> conn.target, label |-> conn.target_label, isInitialEntity |-> FALSE]

\* a merge that makes no node
IsNewNodeNever(tgt, ns) == FALSE

\* a merge that makes a node for every connection's target
IsNewNodeAlways(tgt, ns) == TRUE

\* a merge that takes every target not yet queried for new
IsNewNodeUnprocessed(tgt, ns) == tgt \notin processedIds

\* line 160: !(tgt in nodes)
IsNewNode(tgt, ns) == tgt \notin DOMAIN ns

\* lines 155-191: [nodes, edges, edgeIds, nextLayerIds]
RECURSIVE MergeConnections(_, _)
MergeConnections(conns, st) ==
    IF conns = <<>> THEN st
    ELSE LET conn == Head(conns)
             isNew == IsNewNode(conn.target, st.nodes)
             edgeId == EdgeId(conn.source, conn.target, conn.label)
             fresh == IsNewEdge(edgeId, st.edgeIds)
         IN MergeConnections(Tail(conns),
              [nodes |-> IF isNew THEN PutNode(st.nodes, conn.target, TargetNode(conn))
                         ELSE st.nodes,
               nextLayerIds |-> IF isNew THEN Append(st.nextLayerIds, conn.target)
                                ELSE st.nextLayerIds,
               edgeIds |-> IF fresh THEN st.edgeIds \cup {edgeId} ELSE st.edgeIds,
               edges |-> IF fresh
                         THEN Append(st.edges,
                                [id |-> edgeId, from |-> conn.source,
                                 to |-> conn.target, label |-> conn.label])
                         ELSE st.edges])

\* line 119
Unprocessed(layer, processed) == FilterOut(layer, processed)

\* a loop that goes on as long as something is left to process
LoopEndsWhenEmpty(level, maxDepth, layer, remaining) ==
    layer = <<>> \/ remaining = <<>>

\* lines 111, 112, 126: the layer loop is over
LoopEnds(level, maxDepth, layer, remaining) ==
    level >= maxDepth \/ layer = <<>> \/ remaining = <<>>

\* a limit that lets one identifier too many through
LimitLayerOffByOne(ids, maxNodes) ==
    IF Len(ids) > maxNodes + 1 THEN ShuffledSlice(ids, maxNodes + 1) ELSE {ids}

\* lines 122-124: the layers the limit may leave
LimitLayer(ids, maxNodes) ==
    IF Len(ids) > maxNodes THEN ShuffledSlice(ids, maxNodes) ELSE {ids}

\* line 142
BatchOf(ids, i, batchSize) == Slice(ids, i, i + batchSize)

\* a delay after the last batch as well
MoreBatchesInclusive(i, batchSize, n) == i + batchSize <= n

\* line 147
MoreBatches(i, batchSize, n) == i + batchSize < n

\* a processed set that only remembers the last layer
MarkProcessedLastOnly(processed, ids) == Range(ids)

\* line 194
MarkProcessed(processed, ids) == processed \cup Range(ids)

\* a dispatch that does not wait for the answer
AwaitBatchNot == "batch"

\* lines 143 and 83: where the run is while a call it awaits is pending
AwaitBatch == "fetchWait"
AwaitLookup == "resolveWait"

\* what localStorage may hold when a run starts (at time 0): nothing, or an
\* entry an earlier run wrote: just now, or long enough ago to expire at the
\* first millisecond after time 0
ConnQ1 == <<[source |-> Q1, target |-> Q2, target_label |-> LabelL, label |-> LabelK]>>

LARGE_QUOTA == 5 * 1024 * 1024

InitStores ==
    { <<>>,
      setCachedConnections(<<>>, Q1, ConnQ1, 0, LARGE_QUOTA),
      setCachedConnections(<<>>, Q1, ConnQ1, 0 - CONN_TTL, LARGE_QUOTA),
      setCachedQid(<<>>, NameA, Q2, 0, LARGE_QUOTA),
      setCachedQid(<<>>, NameA, NullSentinel, 0, LARGE_QUOTA) }

Quotas == {LARGE_QUOTA}

NoRequest == Req(FALSE, <<>>, FALSE, <<>>, FALSE, 0)
NoBatch == [level |-> 0, batch |-> <<>>, queried |-> FALSE, failed |-> FALSE,
            cached |-> <<>>, connections |-> <<>>]

InitRun ==
    /\ pc = "idle"
    /\ request = NoRequest
    /\ names = <<>>
    /\ depth = 0
    /\ nameIdx = 1
    /\ nodes = <<>>
    /\ edges = <<>>
    /\ edgeIds = {}
    /\ processedIds = {}
    /\ initialEntityIds = {}
    /\ currentLayerIds = <<>>
    /\ currentDepth = 0
    /\ toProcess = <<>>
    /\ batchStart = 0
    /\ allNewConnections = <<>>
    /\ error = ""
    /\ uncachedQids = <<>>
    /\ cachedConnections = <<>>
    /\ validated = FALSE
    /\ queries = 0
    /\ candidates = <<>>
    /\ fetchedIds = <<>>
    /\ resolved = {}
    /\ levelLog = <<>>
    /\ levelsDone = <<>>
    /\ lastBatch = NoBatch

NoGet == [done |-> FALSE]
NoSet == [done |-> FALSE]
NoReturn == [done |-> FALSE]

\* nothing has used the persistent cache on its own
InitCache ==
    /\ lastGet = NoGet
    /\ lastSet = NoSet

\* api.ts as loaded: an empty responseCache (line 16), no call yet
InitResp ==
    /\ responseCache = <<>>
    /\ pending = <<>>
    /\ started = 0
    /\ lastCompleted = <<>>
    /\ lastReturn = NoReturn
    /\ callKeys = <<>>

NoLookup == [state |-> "none"]
NoFetch == [state |-> "none"]
NoWritten == [has |-> FALSE]
NoArg == [fn |-> "none"]

\* nothing has used lib/sparql.ts on its own
InitSparql ==
    /\ lastLookup = NoLookup
    /\ answers = <<>>
    /\ lastFetch = NoFetch
    /\ written = NoWritten

NoApplied == [by |-> 0, latest |-> TRUE]

InitSearch ==
    /\ results = <<>>
    /\ isSearching = FALSE
    /\ searchError = <<>>
    /\ abortController = 0
    /\ aborted = {}
    /\ searches = {}
    /\ issued = 0
    /\ lastApplied = NoApplied

InitPure ==
    /\ arg = NoArg
    /\ result = NoArg

Init ==
    /\ store \in InitStores
    /\ quota \in Quotas
    /\ now = 0
    /\ ticks = 0
    /\ inflight = <<>>
    /\ table \in CrawlTables
    /\ InitRun
    /\ InitCache
    /\ InitResp
    /\ InitSparql
    /\ InitSearch
    /\ InitPure

\* generateGraph(request) up to its first await: validation, the placeholder
\* nodes of the supplied identifiers (lines 45-78)
Start ==
    /\ UNCHANGED <<cacheVars, respVars, sparqlVars, pureVars, searchVars>>
    /\ pc = "idle"
    /\ \E req \in Requests :
        LET v == Validate(req) IN
        /\ request' = req
        /\ validated' = v.ok
        /\ error' = v.err
        /\ pc' = IF v.ok THEN "resolve" ELSE "failed"
        /\ names' = v.names
        /\ depth' = v.depth
        /\ currentLayerIds' = v.qids
        /\ initialEntityIds' = Range(v.qids)
        /\ nodes' = SeedNodes(v.qids, <<>>)
    /\ UNCHANGED <<envVars, table, nameIdx, edges, edgeIds, processedIds,
                   currentDepth, toProcess, batchStart, allNewConnections,
                   uncachedQids, cachedConnections, queries, candidates,
                   fetchedIds, resolved, levelLog, levelsDone, lastBatch>>

\* getWikidataId(names[nameIdx]) up to its query (lines 83, 166-189); a
\* cached answer or a name that fails sanitization ends the call at once
ResolveCall ==
    /\ UNCHANGED <<cacheVars, respVars, sparqlVars, pureVars, searchVars>>
    /\ pc = "resolve"
    /\ nameIdx <= Len(names)
    /\ LET name == names[nameIdx]
           c == getCachedQid(store, name, now)
           r == ApplyResolved(name, c.hit /\ c.data # NullSentinel, c.data)
       IN /\ store' = c.store
          /\ IF c.hit \/ ~sanitizeEntityName(name).ok
             THEN /\ nodes' = r.nodes
                  /\ initialEntityIds' = r.initialEntityIds
                  /\ currentLayerIds' = r.currentLayerIds
                  /\ nameIdx' = nameIdx + 1
                  /\ resolved' = IF c.hit /\ c.data # NullSentinel /\ c.data # <<>>
                                  THEN resolved \cup {c.data} ELSE resolved
                  /\ UNCHANGED <<pc, inflight, queries>>
             ELSE /\ inflight' = Append(inflight,
                                    [kind |-> "lookup", level |-> 0, ids |-> <<name>>])
                  /\ queries' = queries + 1
                  /\ pc' = AwaitLookup
                  /\ UNCHANGED <<nodes, initialEntityIds, currentLayerIds, nameIdx,
                                 resolved>>
    /\ UNCHANGED <<quota, now, ticks, table, request, names, depth, edges, edgeIds,
                   processedIds, currentDepth, toProcess, batchStart,
                   allNewConnections, error, uncachedQids, cachedConnections,
                   validated, candidates, fetchedIds, levelLog,
                   levelsDone, lastBatch>>

\* the lookup answers or fails (lines 188-201), then lines 84-103
LookupReturnWith(outcome) ==
    /\ UNCHANGED <<cacheVars, respVars, sparqlVars, pureVars, searchVars>>
    /\ pc = "resolveWait"
    /\ inflight # <<>>
    /\ Head(inflight).kind = "lookup"
    /\  LET name == names[nameIdx]
            found == ~outcome.failed /\ outcome.rows # <<>>
            qid == IF found THEN outcome.rows[1] ELSE <<>>
            r == ApplyResolved(name, found, qid)
        IN /\ store' = IF outcome.failed THEN store
                       ELSE setCachedQid(store, name,
                                IF found THEN qid ELSE NullSentinel, now, quota)
           /\ nodes' = r.nodes
           /\ initialEntityIds' = r.initialEntityIds
           /\ currentLayerIds' = r.currentLayerIds
           /\ resolved' = IF found /\ qid # <<>> THEN resolved \cup {qid} ELSE resolved
    /\ inflight' = Tail(inflight)
    /\ nameIdx' = nameIdx + 1
    /\ pc' = "resolve"
    /\ UNCHANGED <<quota, now, ticks, table, request, names, depth, edges, edgeIds,
                   processedIds, currentDepth, toProcess, batchStart,
                   allNewConnections, error, uncachedQids, cachedConnections,
                   validated, queries, candidates, fetchedIds, levelLog,
                   levelsDone, lastBatch>>

LookupReturn == \E outcome \in LookupOutcomes : LookupReturnWith(outcome)

\* line 106: after the last name
ResolveEnd ==
    /\ UNCHANGED <<cacheVars, respVars, sparqlVars, pureVars, searchVars>>
    /\ pc = "resolve"
    /\ nameIdx > Len(names)
    /\ IF currentLayerIds = <<>>
       THEN pc' = "failed" /\ error' = ERR_NO_SEED
       ELSE pc' = "layer" /\ UNCHANGED error
    /\ UNCHANGED <<envVars, table, request, names, depth, nameIdx, nodes, edges,
                   edgeIds, processedIds, initialEntityIds, currentLayerIds,
                   currentDepth, toProcess, batchStart, allNewConnections,
                   uncachedQids, cachedConnections, histVars>>

\* lines 111-128: the top of the layer loop; the run returns (lines 198-203)
\* when the depth is used up or nothing is left to process
LayerStart ==
    /\ UNCHANGED <<cacheVars, respVars, sparqlVars, pureVars, searchVars>>
    /\ pc = "layer"
    /\ LET config == getDepthConfig(currentDepth + 1)
           remaining == Unprocessed(currentLayerIds, processedIds)
       IN IF LoopEnds(currentDepth, depth, currentLayerIds, remaining)
          THEN /\ pc' = "done"
               /\ UNCHANGED <<toProcess, batchStart, allNewConnections, candidates,
                              fetchedIds, levelLog>>
          ELSE /\ toProcess' \in LimitLayer(remaining, config.max_nodes_per_layer)
               /\ batchStart' = 0
               /\ allNewConnections' = <<>>
               /\ candidates' = remaining
               /\ fetchedIds' = <<>>
               /\ levelLog' = <<>>
               /\ pc' = "batch"
    /\ UNCHANGED <<envVars, table, request, names, depth, nameIdx, nodes, edges,
                   edgeIds, processedIds, initialEntityIds, currentLayerIds,
                   currentDepth, error, uncachedQids, cachedConnections,
                   validated, queries, resolved, levelsDone, lastBatch>>

\* lines 144-196: the batch's connections are in; either the delay before
\* the next batch, or the merge of the layer and the step to the next one
AfterBatch(connections, thrown, log, fetched) ==
    LET config == getDepthConfig(currentDepth + 1)
        all == allNewConnections \o connections
        m == MergeConnections(all,
                [nodes |-> nodes, edges |-> edges, edgeIds |-> edgeIds,
                 nextLayerIds |-> <<>>])
    IN  IF thrown
        THEN /\ pc' = "failed"
             /\ error' = "SPARQL query failed"
             /\ levelLog' = log
             /\ UNCHANGED <<allNewConnections, nodes, edges, edgeIds, processedIds,
                            currentLayerIds, currentDepth, levelsDone>>
        ELSE IF MoreBatches(batchStart, config.batch_size, Len(toProcess))
        THEN /\ pc' = "sleep"
             /\ allNewConnections' = all
             /\ levelLog' = Append(log, [ev |-> "return", ms |-> 0])
             /\ UNCHANGED <<error, nodes, edges, edgeIds, processedIds,
                            currentLayerIds, currentDepth, levelsDone>>
        ELSE /\ pc' = "layer"
             /\ allNewConnections' = all
             /\ levelLog' = Append(log, [ev |-> "return", ms |-> 0])
             /\ nodes' = m.nodes
             /\ edges' = m.edges
             /\ edgeIds' = m.edgeIds
             /\ processedIds' = MarkProcessed(processedIds, toProcess)
             /\ currentLayerIds' = m.nextLayerIds
             /\ currentDepth' = currentDepth + 1
             /\ levelsDone' = Append(levelsDone,
                    [level |-> currentDepth + 1, candidates |-> candidates,
                     selected |-> toProcess, fetched |-> fetched,
                     sources |-> {all[i].source : i \in 1..Len(all)},
                     log |-> Append(log, [ev |-> "return", ms |-> 0])])
             /\ UNCHANGED error

\* lines 141-143 and 204-220: the next batch goes to fetchBatchConnections,
\* which answers from the cache alone or issues its one query
BatchCall ==
    /\ UNCHANGED <<cacheVars, respVars, sparqlVars, pureVars, searchVars>>
    /\ pc = "batch"
    /\ LET config == getDepthConfig(currentDepth + 1)
           batch == BatchOf(toProcess, batchStart, config.batch_size)
           scan == CacheScan(batch,
                      [store |-> store, uncached |-> <<>>, cached |-> <<>>], now)
           log == Append(levelLog, [ev |-> "dispatch", ms |-> 0])
       IN /\ store' = scan.store
          /\ fetchedIds' = fetchedIds \o batch
          /\ IF scan.uncached = <<>>
             THEN /\ lastBatch' = [level |-> currentDepth + 1, batch |-> batch,
                                   queried |-> FALSE, failed |-> FALSE,
                                   cached |-> scan.cached,
                                   connections |-> scan.cached]
                  /\ AfterBatch(scan.cached, FALSE, log, fetchedIds \o batch)
                  /\ UNCHANGED <<inflight, queries, uncachedQids, cachedConnections>>
             ELSE /\ inflight' = Append(inflight,
                                    [kind |-> "batch", level |-> currentDepth + 1,
                                     ids |-> scan.uncached])
                  /\ queries' = queries + 1
                  /\ uncachedQids' = scan.uncached
                  /\ cachedConnections' = scan.cached
                  /\ lastBatch' = [level |-> currentDepth + 1, batch |-> batch,
                                   queried |-> TRUE, failed |-> FALSE,
                                   cached |-> scan.cached, connections |-> <<>>]
                  /\ levelLog' = log
                  /\ pc' = AwaitBatch
                  /\ UNCHANGED <<allNewConnections, error, nodes, edges, edgeIds,
                                 processedIds, currentLayerIds, currentDepth,
                                 levelsDone>>
    /\ UNCHANGED <<quota, now, ticks, table, request, names, depth, nameIdx,
                   initialEntityIds, toProcess, batchStart, validated, candidates,
                   resolved>>

\* lines 250-297: the batched query answers or fails
BatchReturnWith(outcome) ==
    /\ UNCHANGED <<cacheVars, respVars, sparqlVars, pureVars, searchVars>>
    /\ pc = "fetchWait"
    /\ inflight # <<>>
    /\ Head(inflight).kind = "batch"
    /\  LET r == FetchResult(outcome, uncachedQids, cachedConnections, store,
                             now, quota)
        IN /\ store' = r.store
           /\ lastBatch' = [lastBatch EXCEPT !.failed = outcome.failed,
                                             !.connections = r.connections]
           /\ AfterBatch(r.connections, r.thrown, levelLog, fetchedIds)
    /\ inflight' = Tail(inflight)
    /\ uncachedQids' = <<>>
    /\ cachedConnections' = <<>>
    /\ UNCHANGED <<quota, now, ticks, table, request, names, depth, nameIdx,
                   initialEntityIds, toProcess, batchStart, validated, queries,
                   candidates, fetchedIds, resolved>>

BatchReturn == \E outcome \in BatchOutcomes : BatchReturnWith(outcome)

\* lines 147-149, 141: the delay between two batches is over
SleepDone ==
    /\ UNCHANGED <<cacheVars, respVars, sparqlVars, pureVars, searchVars>>
    /\ pc = "sleep"
    /\ now' = now + BATCH_RATE_LIMIT
    /\ batchStart' = batchStart + getDepthConfig(currentDepth + 1).batch_size
    /\ levelLog' = Append(levelLog, [ev |-> "delay", ms |-> BATCH_RATE_LIMIT])
    /\ pc' = "batch"
    /\ UNCHANGED <<store, quota, ticks, inflight, table, request, names, depth,
                   nameIdx, nodes, edges, edgeIds, processedIds, initialEntityIds,
                   currentLayerIds, currentDepth, toProcess, allNewConnections,
                   error, uncachedQids, cachedConnections, validated, queries,
                   candidates, fetchedIds, resolved, levelsDone, lastBatch>>

Next ==
    \/ Start
    \/ ResolveCall
    \/ LookupReturn
    \/ ResolveEnd
    \/ LayerStart
    \/ BatchCall
    \/ BatchReturn
    \/ SleepDone

Spec == Init /\ [][Next]_vars

\* a request that stays outstanding is answered in the end, if by nothing
\* else then by its failure
TransportAnswers ==
    \/ LookupReturnWith([failed |-> TRUE, rows |-> <<>>])
    \/ BatchReturnWith([failed |-> TRUE, rows |-> <<>>])

\* the run goes on whenever it is not waiting for the transport
Continues == pc \notin {AwaitLookup, AwaitBatch} /\ Next

SpecLive ==
    Init /\ [][Next]_vars /\ WF_vars(TransportAnswers) /\ WF_vars(Continues)

(***************************************************************************)
(* api.ts: the response cache in front of generateGraph.  A result object  *)
(* is known by the number of the call whose producer made it.              *)
(***************************************************************************)
CACHE_TTL == 10 * 60 * 1000

Undefined == "#undefined"

\* requests as generateMap gets them: fields in the order they were set
ReqNames == <<<<"names", "[a]">>, <<"depth", "2">>>>
ReqNamesNoQids == <<<<"names", "[a]">>, <<"qids", Undefined>>, <<"depth", "2">>>>
ReqNamesSwapped == <<<<"depth", "2">>, <<"names", "[a]">>>>
ReqQids == <<<<"qids", "[Q1]">>, <<"depth", "1">>>>
MapRequests == {ReqNames, ReqNamesNoQids, ReqNamesSwapped, ReqQids}

\* JSON.stringify(request): the fields in their order, undefined ones left out
IsDefined(field) == field[2] # Undefined
JsonStringify(req) == SelectSeq(req, IsDefined)

\* line 71
CacheKeyOf(req) == <<"generate-", JsonStringify(req)>>

\* responseCache.get(key)
CacheGet(cache, key) ==
    IF key \in DOMAIN cache
    THEN [has |-> TRUE, data |-> cache[key].data, timestamp |-> cache[key].timestamp]
    ELSE [has |-> FALSE, data |-> 0, timestamp |-> 0]

\* a validity test that turns the comparison round
isCacheValidInverted(cached, t) ==
    cached.has /\ t - cached.timestamp >= CACHE_TTL

isCacheValid(cached, t) ==
    cached.has /\ t - cached.timestamp < CACHE_TTL

\* a store that keeps the entry a key already has
StoreResultIfAbsent(cache, key, entry) ==
    IF key \in DOMAIN cache THEN cache ELSE PutItem(cache, key, entry)

\* lines 36-39: responseCache.set(key, { data, timestamp })
StoreResult(cache, key, entry) == PutItem(cache, key, entry)

\* clearExpiredCache: the cache without the entries it deletes
SweptCache(cache, t) ==
    [k \in {x \in DOMAIN cache : ~(t - cache[x].timestamp >= CACHE_TTL)} |-> cache[k]]

\* how far the clock may jump between two steps
RespSteps == {1, CACHE_TTL - 1}

InitRespOnly ==
    /\ store = <<>>
    /\ quota = LARGE_QUOTA
    /\ now = 0
    /\ ticks = 0
    /\ inflight = <<>>
    /\ table = DEPTH_CONFIG
    /\ InitRun
    /\ InitCache
    /\ InitResp
    /\ InitSparql
    /\ InitSearch
    /\ InitPure

\* what is known, when a call starts, of the last result stored under its key
Previous(key) ==
    IF key \in DOMAIN lastCompleted
    THEN [had |-> TRUE, obj |-> lastCompleted[key].data,
          young |-> now - lastCompleted[key].timestamp < CACHE_TTL]
    ELSE [had |-> FALSE, obj |-> 0, young |-> FALSE]

\* cachedFetch(key, fetcher, skipCache) up to its return or its await
CallStart ==
    /\ started < MaxCalls
    /\ started' = started + 1
    /\ \E req \in MapRequests, skipCache \in BOOLEAN :
          LET key == CacheKeyOf(req)
              cached == CacheGet(responseCache, key)
              overlap == {c \in DOMAIN pending : pending[c].key = key}
          IN  /\ callKeys' = Append(callKeys, key)
              /\ IF ~skipCache /\ isCacheValid(cached, now)
                 THEN /\ lastReturn' = [done |-> TRUE, call |-> started + 1,
                                        skipCache |-> skipCache, prev |-> Previous(key),
                                        invoked |-> FALSE, data |-> cached.data,
                                        overlap |-> overlap, replaced |-> 0]
                      /\ UNCHANGED pending
                 ELSE /\ pending' = PutItem(pending, started + 1,
                                       [key |-> key, skipCache |-> skipCache,
                                        prev |-> Previous(key), overlap |-> overlap])
                      /\ UNCHANGED lastReturn
    /\ UNCHANGED <<envVars, runVars, histVars, cacheVars, sparqlVars, pureVars, searchVars, responseCache, lastCompleted>>

\* the producer of a waiting call resolves: lines 35-41
ProducerReturn ==
    /\ \E c \in DOMAIN pending :
          LET entry == [data |-> c, timestamp |-> now] IN
          /\ responseCache' = StoreResult(responseCache, pending[c].key, entry)
          /\ lastCompleted' = PutItem(lastCompleted, pending[c].key, entry)
          /\ lastReturn' = [done |-> TRUE, call |-> c,
                            skipCache |-> pending[c].skipCache,
                            prev |-> pending[c].prev,
                            invoked |-> TRUE, data |-> c,
                            overlap |-> pending[c].overlap,
                            replaced |-> CacheGet(responseCache, pending[c].key).data]
          /\ pending' = RemoveItems(pending, {c})
    /\ UNCHANGED <<envVars, runVars, histVars, cacheVars, sparqlVars, pureVars, searchVars, started,
                   callKeys>>

\* the producer of a waiting call rejects: the call rejects, nothing is stored
ProducerThrow ==
    /\ \E c \in DOMAIN pending : pending' = RemoveItems(pending, {c})
    /\ UNCHANGED <<envVars, runVars, histVars, cacheVars, sparqlVars, pureVars, searchVars, responseCache, started,
                   lastCompleted, lastReturn, callKeys>>

\* the interval timer of line 201 fires
clearExpiredCache ==
    /\ responseCache' = SweptCache(responseCache, now)
    /\ responseCache' # responseCache
    /\ UNCHANGED <<envVars, runVars, histVars, cacheVars, sparqlVars, pureVars, searchVars, pending, started,
                   lastCompleted, lastReturn, callKeys>>

clearAllCache ==
    /\ responseCache # <<>>
    /\ responseCache' = <<>>
    /\ lastCompleted' = <<>>
    /\ UNCHANGED <<envVars, runVars, histVars, cacheVars, sparqlVars, pureVars, searchVars, pending, started, lastReturn,
                   callKeys>>

\* time passes
RespTick ==
    /\ ticks < MaxTicks
    /\ \E d \in RespSteps : now' = now + d
    /\ ticks' = ticks + 1
    /\ UNCHANGED <<store, quota, inflight, runVars, histVars, cacheVars, respVars, sparqlVars, pureVars, searchVars>>

NextResp ==
    \/ CallStart
    \/ ProducerReturn
    \/ ProducerThrow
    \/ clearExpiredCache
    \/ clearAllCache
    \/ RespTick

SpecResp == InitRespOnly /\ [][NextResp]_vars

(***************************************************************************)
(* lib/cache.ts used on its own: the four exported operations called at    *)
(* any time, in any order, on a storage with much or little room.          *)
(***************************************************************************)
CacheNames == {NameA, NameB}
CacheIds == {Q1}
CacheQids == {Q2, NullSentinel}
CacheConnections == {<<>>, ConnQ1}
CacheQuotas == {LARGE_QUOTA, SmallQuota}
\* how far the clock may jump between two calls
CacheSteps == {1, CONN_TTL, QID_TTL}

\* an item of another part of the page; its text is no cache entry, the
\* fields only give it a size
ForeignKey == <<"theme", <<>>>>
ForeignItem == [data |-> <<"d">>, expires |-> 0 - 1]

InitCacheOnly ==
    /\ store \in {<<>>, PutItem(<<>>, ForeignKey, ForeignItem)}
    /\ quota \in CacheQuotas
    /\ now = 0
    /\ ticks = 0
    /\ inflight = <<>>
    /\ table = DEPTH_CONFIG
    /\ InitRun
    /\ InitCache
    /\ InitResp
    /\ InitSparql
    /\ InitSearch
    /\ InitPure

\* what a get did: whether it found an entry, how the time of the call
\* stands to the entry's expiry, what came back, what became of the store
GetRecord(key, r) ==
    LET found == key \in DOMAIN store IN
    [done |-> TRUE,
     found |-> found,
     late |-> found /\ now > store[key].expires,
     edge |-> found /\ now = store[key].expires,
     hit |-> r.hit,
     value |-> found /\ r.data = store[key].data,
     kept |-> key \in DOMAIN r.store,
     same |-> r.store = store,
     others |-> \A k \in DOMAIN store \ {key} :
                    k \in DOMAIN r.store /\ r.store[k] = store[k]]

\* what a set did: how many writes the room called for, whether the value
\* is stored, what else went and what else stayed
SetRecord(key, data, ttl, after) ==
    LET entry == [data |-> data, expires |-> now + ttl]
        engine == {k \in DOMAIN store : k[1] \in {QID_CACHE_PREFIX, CONN_CACHE_PREFIX}}
        expired == {k \in engine : now > store[k].expires}
        room(gone) == SumSizes(store, DOMAIN store \ (gone \cup {key}))
                          + ItemSize(entry) <= quota
        rest == DOMAIN store \ {key}
    IN  [done |-> TRUE,
         writes |-> IF room({}) THEN 1 ELSE IF room(expired) THEN 2
                    ELSE IF room(engine) THEN 3 ELSE 4,
         stored |-> key \in DOMAIN after /\ after[key] = entry,
         absent |-> key \notin DOMAIN after,
         lostLive |-> \E k \in (rest \cap engine) \ expired : k \notin DOMAIN after,
         lostExpired |-> \E k \in rest \cap expired : k \notin DOMAIN after,
         keptExpired |-> \E k \in rest \cap expired : k \in DOMAIN after,
         keptEngine |-> \E k \in rest \cap engine : k \in DOMAIN after,
         hadLive |-> (rest \cap engine) \ expired # {},
         old |-> key \in DOMAIN store /\ now <= store[key].expires
                     /\ store[key].data # data,
         getHit |-> getFromStorage(after, key, now).hit,
         getData |-> getFromStorage(after, key, now).data = data,
         intact |-> \A k \in DOMAIN after \ {key} :
                        k \in DOMAIN store /\ after[k] = store[k],
         foreign |-> \A k \in DOMAIN store \ engine :
                        k \in DOMAIN after /\ after[k] = store[k]]

SetQid ==
    /\ \E name \in CacheNames, qid \in CacheQids :
          /\ store' = setCachedQid(store, name, qid, now, quota)
          /\ lastSet' = SetRecord(<<QID_CACHE_PREFIX, name>>, qid, QID_TTL, store')
    /\ UNCHANGED <<quota, now, ticks, inflight, runVars, histVars, lastGet, respVars, sparqlVars, pureVars, searchVars>>

SetConnections ==
    /\ \E qid \in CacheIds, conns \in CacheConnections :
          /\ store' = setCachedConnections(store, qid, conns, now, quota)
          /\ lastSet' = SetRecord(<<CONN_CACHE_PREFIX, qid>>, conns, CONN_TTL, store')
    /\ UNCHANGED <<quota, now, ticks, inflight, runVars, histVars, lastGet, respVars, sparqlVars, pureVars, searchVars>>

GetQid ==
    /\ \E name \in CacheNames :
          LET r == getCachedQid(store, name, now) IN
          /\ store' = r.store
          /\ lastGet' = GetRecord(<<QID_CACHE_PREFIX, name>>, r)
    /\ UNCHANGED <<quota, now, ticks, inflight, runVars, histVars, lastSet, respVars, sparqlVars, pureVars, searchVars>>

GetConnections ==
    /\ \E qid \in CacheIds :
          LET r == getCachedConnections(store, qid, now) IN
          /\ store' = r.store
          /\ lastGet' = GetRecord(<<CONN_CACHE_PREFIX, qid>>, r)
    /\ UNCHANGED <<quota, now, ticks, inflight, runVars, histVars, lastSet, respVars, sparqlVars, pureVars, searchVars>>

\* time passes between two calls
CacheTick ==
    /\ ticks < MaxTicks
    /\ \E d \in CacheSteps : now' = now + d
    /\ ticks' = ticks + 1
    /\ UNCHANGED <<store, quota, inflight, runVars, histVars, cacheVars, respVars, sparqlVars, pureVars, searchVars>>

NextCache ==
    \/ SetQid
    \/ SetConnections
    \/ GetQid
    \/ GetConnections
    \/ CacheTick

SpecCache == InitCacheOnly /\ [][NextCache]_vars

(***************************************************************************)
(* getWikidataId used on its own: called for one name after another, as    *)
(* generateGraph does, at any time, on a storage with much or little room. *)
(***************************************************************************)
LookupNames == {NameA, NameB, LongName}
LookupSteps == {1, QID_TTL}

InitLookupOnly ==
    /\ store \in {<<>>, PutItem(<<>>, ForeignKey, ForeignItem)}
    /\ quota \in CacheQuotas
    /\ now = 0
    /\ ticks = 0
    /\ inflight = <<>>
    /\ table = DEPTH_CONFIG
    /\ InitRun
    /\ InitCache
    /\ InitResp
    /\ InitSparql
    /\ InitSearch
    /\ InitPure

\* how the last lookup query of a name ended, as a call sees it
PreviousAnswer(name) ==
    IF name \in DOMAIN answers
    THEN [kind |-> answers[name].kind, kept |-> answers[name].kept,
          young |-> now - answers[name].at <= QID_TTL]
    ELSE [kind |-> "never", kept |-> FALSE, young |-> FALSE]

\* an answer's entry is kept as long as its key stays in the store
StillKept(ans, st) ==
    [n \in DOMAIN ans |->
        [ans[n] EXCEPT !.kept = ans[n].kept /\ <<QID_CACHE_PREFIX, n>> \in DOMAIN st]]

\* getWikidataId(name) up to its return or its await
LookupCall ==
    /\ inflight = <<>>
    /\ \E name \in LookupNames :
          LET b == getWikidataIdBefore(store, name, now)
              key == <<QID_CACHE_PREFIX, name>>
          IN  /\ store' = b.store
              /\ answers' = StillKept(answers, b.store)
              /\ lastLookup' =
                    [state |-> IF b.returns THEN "returned" ELSE "pending",
                     name |-> name,
                     sane |-> Len(Trim(name)) \in 1..MAX_NAME_LENGTH,
                     hadEntry |-> key \in DOMAIN store /\ now <= store[key].expires,
                     prev |-> PreviousAnswer(name),
                     queried |-> ~b.returns,
                     absent |-> b.value = <<>>]
              /\ inflight' = IF b.returns THEN <<>>
                             ELSE <<[kind |-> "lookup", level |-> 0, ids |-> <<name>>]>>
    /\ UNCHANGED <<quota, now, ticks, runVars, histVars, cacheVars, respVars,
                   lastFetch, written, pureVars, searchVars>>

\* the query of the waiting call ends
LookupAnswer ==
    /\ inflight # <<>>
    /\ Head(inflight).kind = "lookup"
    /\ \E outcome \in LookupOutcomes :
          LET name == Head(inflight).ids[1]
              a == getWikidataIdAfter(store, name, outcome, now, quota)
              data == IF outcome.rows = <<>> THEN NullSentinel ELSE outcome.rows[1]
              set == SetRecord(<<QID_CACHE_PREFIX, name>>, data, QID_TTL, a.store)
          IN  /\ store' = a.store
              /\ answers' = StillKept(
                    PutItem(answers, name,
                        [kind |-> IF outcome.failed THEN "error"
                                  ELSE IF outcome.rows = <<>> THEN "none" ELSE "row",
                         at |-> now,
                         room |-> set.writes <= 3,
                         kept |-> set.stored,
                         same |-> a.store = store]),
                    a.store)
              /\ lastLookup' = [lastLookup EXCEPT !.state = "returned",
                                                  !.absent = (a.value = <<>>)]
    /\ inflight' = <<>>
    /\ UNCHANGED <<quota, now, ticks, runVars, histVars, cacheVars, respVars,
                   lastFetch, written, pureVars, searchVars>>

\* time passes between two steps
LookupTick ==
    /\ ticks < MaxTicks
    /\ \E d \in LookupSteps : now' = now + d
    /\ ticks' = ticks + 1
    /\ UNCHANGED <<store, quota, inflight, runVars, histVars, cacheVars, respVars,
                   sparqlVars, pureVars, searchVars>>

NextLookup ==
    \/ LookupCall
    \/ LookupAnswer
    \/ LookupTick

SpecLookup == InitLookupOnly /\ [][NextLookup]_vars

(***************************************************************************)
(* fetchBatchConnections used on its own: called for one batch after       *)
(* another, at any time, on a storage with much or little room.  The       *)
(* endpoint answers with rows of the sources it was asked for.             *)
(***************************************************************************)
FetchBatches == {<<Q1>>, <<Q2>>, <<Q2, Q1>>, <<Q2, Q1, Q3>>}
FetchSteps == {1, CONN_TTL}

\* the answers tried: no row, one row, two rows of one source, a row of
\* each source, a row with a target that is skipped
FetchAnswers ==
    { <<>>,
      <<Row(Q1, Q2, LabelL, LabelK)>>,
      <<Row(Q2, Q3, LabelL, LabelK)>>,
      <<Row(Q1, Q2, LabelL, LabelK), Row(Q1, Q3, LabelL, LabelK)>>,
      <<Row(Q2, Q3, LabelL, LabelK), Row(Q1, Q2, LabelL, LabelK)>>,
      <<Row(Q1, BadTarget, LabelL, LabelK)>> }

\* the outcomes of a query for the sources asked
FetchOutcomes(uncached) ==
    {o \in {[failed |-> TRUE, rows |-> <<>>]}
                \cup {[failed |-> FALSE, rows |-> r] : r \in FetchAnswers} :
        \A i \in 1..Len(o.rows) : o.rows[i].source \in Range(uncached)}

InitFetchOnly ==
    /\ store = <<>>
    /\ quota \in CacheQuotas
    /\ now = 0
    /\ ticks = 0
    /\ inflight = <<>>
    /\ table = DEPTH_CONFIG
    /\ InitRun
    /\ InitCache
    /\ InitResp
    /\ InitSparql
    /\ InitSearch
    /\ InitPure

ConnKey(qid) == <<CONN_CACHE_PREFIX, qid>>

\* the entries get counts as present
Live(st, t) == {k \in DOMAIN st : IsEngineKey(k) /\ t <= st[k].expires}

\* the connections of a list of sources, source by source
RECURSIVE PerSource(_, _)
PerSource(qids, conns) ==
    IF qids = <<>> THEN <<>>
    ELSE conns[Head(qids)] \o PerSource(Tail(qids), conns)

\* the connections stored, unexpired, for a list of sources, in its order
RECURSIVE StoredFor(_, _, _)
StoredFor(qids, st, t) ==
    IF qids = <<>> THEN <<>>
    ELSE (IF ConnKey(Head(qids)) \in Live(st, t) THEN st[ConnKey(Head(qids))].data
          ELSE <<>>) \o StoredFor(Tail(qids), st, t)

\* how a call stands to the last call whose query succeeded
Earlier(qids) ==
    IF ~written.has
    THEN [has |-> FALSE]
    ELSE [has |-> TRUE,
          within |-> now - written.at <= CONN_TTL,
          ofAll |-> Range(qids) \subseteq written.ids,
          ofQueried |-> Range(qids) \subseteq written.queried,
          instore |-> \A id \in Range(qids) : ConnKey(id) \in DOMAIN store,
          expected |-> IF Range(qids) \subseteq written.ids
                       THEN PerSource(qids, written.conns) ELSE <<>>]

\* fetchBatchConnections(qids) up to its return or its await (lines 205-251)
FetchCall ==
    /\ inflight = <<>>
    /\ \E qids \in FetchBatches :
          LET scan == CacheScan(qids, [store |-> store, uncached |-> <<>>,
                                       cached |-> <<>>], now)
              allHit == \A id \in Range(qids) : ConnKey(id) \in Live(store, now)
          IN  /\ store' = scan.store
              /\ lastFetch' =
                    [state |-> IF scan.uncached = <<>> THEN "returned" ELSE "pending",
                     qids |-> qids,
                     uncached |-> scan.uncached,
                     cached |-> scan.cached,
                     allHit |-> allHit,
                     queries |-> IF scan.uncached = <<>> THEN 0 ELSE 1,
                     failed |-> FALSE,
                     thrown |-> FALSE,
                     connections |-> scan.cached,
                     liveBefore |-> Live(store, now),
                     storedBefore |-> StoredFor(qids, store, now),
                     quiet |-> TRUE,
                     earlier |-> Earlier(qids)]
              /\ inflight' = IF scan.uncached = <<>> THEN <<>>
                             ELSE <<[kind |-> "batch", level |-> 0,
                                     ids |-> scan.uncached]>>
    /\ UNCHANGED <<quota, now, ticks, runVars, histVars, cacheVars, respVars,
                   lastLookup, answers, written, pureVars, searchVars>>

\* the answer's connections per source, and whether all fit without eviction
WrittenRecord(r, rows) ==
    LET fresh == Range(lastFetch.uncached)
        ids == Range(lastFetch.qids)
        conns == [id \in ids |-> BySource(r.connections, id)]
        need == Cardinality(fresh) + Len(AllConnections(rows))
    IN  [has |-> TRUE,
         at |-> now,
         ids |-> ids,
         queried |-> fresh,
         conns |-> conns,
         room |-> SumSizes(store, DOMAIN store \ {ConnKey(id) : id \in fresh})
                      + need <= quota,
         complete |-> \A id \in ids : ConnKey(id) \in DOMAIN r.store]

\* the query of the waiting call ends (lines 251-296)
FetchAnswer ==
    /\ inflight # <<>>
    /\ Head(inflight).kind = "batch"
    /\ \E outcome \in FetchOutcomes(lastFetch.uncached) :
          LET r == FetchResult(outcome, lastFetch.uncached, lastFetch.cached,
                               store, now, quota)
          IN  /\ store' = r.store
              /\ lastFetch' = [lastFetch EXCEPT
                                  !.state = "returned",
                                  !.failed = outcome.failed,
                                  !.thrown = r.thrown,
                                  !.connections = r.connections,
                                  !.quiet = (r.store = store)]
              /\ written' = IF outcome.failed THEN written
                            ELSE WrittenRecord(r, outcome.rows)
    /\ inflight' = <<>>
    /\ UNCHANGED <<quota, now, ticks, runVars, histVars, cacheVars, respVars,
                   lastLookup, answers, pureVars, searchVars>>

\* time passes between two steps
FetchTick ==
    /\ ticks < MaxTicks
    /\ \E d \in FetchSteps : now' = now + d
    /\ ticks' = ticks + 1
    /\ UNCHANGED <<store, quota, inflight, runVars, histVars, cacheVars, respVars,
                   sparqlVars, pureVars, searchVars>>

NextFetch ==
    \/ FetchCall
    \/ FetchAnswer
    \/ FetchTick

SpecFetch == InitFetchOnly /\ [][NextFetch]_vars

(***************************************************************************)
(* lib/shortestPath.ts: findShortestPath.  An edge is [id, from, to,       *)
(* label]; a result is [found, nodeIds, edgeIds].                          *)
(***************************************************************************)
\* an adjacency that follows an edge from its source only
RECURSIVE AdjDirected(_, _)
AdjDirected(es, n) ==
    IF es = <<>> THEN <<>>
    ELSE (IF Head(es).from = n
          THEN <<[neighbor |-> Head(es).to, edgeId |-> Head(es).id]>> ELSE <<>>)
         \o AdjDirected(Tail(es), n)

\* lines 17-23: adj.get(n), the neighbours in the order they were pushed
RECURSIVE Adj(_, _)
Adj(es, n) ==
    IF es = <<>> THEN <<>>
    ELSE (IF Head(es).from = n
          THEN <<[neighbor |-> Head(es).to, edgeId |-> Head(es).id]>> ELSE <<>>)
         \o (IF Head(es).to = n
             THEN <<[neighbor |-> Head(es).from, edgeId |-> Head(es).id]>> ELSE <<>>)
         \o Adj(Tail(es), n)

\* adj.has(n)
AdjHas(es, n) == \E i \in 1..Len(es) : es[i].from = n \/ es[i].to = n

\* Map.set(key, value)
MapSet(m, key, value) ==
    [k \in DOMAIN m \cup {key} |-> IF k = key THEN value ELSE m[k]]

Reverse(seq) == [i \in 1..Len(seq) |-> seq[Len(seq) + 1 - i]]

\* lines 43-54: follow the parents back from the end, then reverse
RECURSIVE Reconstruct(_, _, _, _)
Reconstruct(parent, cur, ns, es) ==
    IF cur \in DOMAIN parent
    THEN Reconstruct(parent, parent[cur].node,
                     Append(ns, parent[cur].node),
                     Append(es, parent[cur].edgeId))
    ELSE [found |-> TRUE, nodeIds |-> Reverse(ns), edgeIds |-> Reverse(es)]

\* lines 36-58: the loop over the neighbours of current
RECURSIVE ScanNeighbors(_, _, _, _)
ScanNeighbors(nbrs, current, endId, st) ==
    IF nbrs = <<>> THEN st
    ELSE IF Head(nbrs).neighbor \in st.visited
    THEN ScanNeighbors(Tail(nbrs), current, endId, st)
    ELSE LET nb == Head(nbrs)
             seen == [st EXCEPT
                        !.visited = st.visited \cup {nb.neighbor},
                        !.parent = MapSet(st.parent, nb.neighbor,
                                       [node |-> current, edgeId |-> nb.edgeId])]
         IN  IF nb.neighbor = endId
             THEN [seen EXCEPT !.found = TRUE]
             ELSE ScanNeighbors(Tail(nbrs), current, endId,
                      [seen EXCEPT !.queue = Append(seen.queue, nb.neighbor)])

\* a search that follows each new node to the end before its siblings
RECURSIVE DepthFirst(_, _, _, _, _)
DepthFirst(es, nbrs, current, endId, st) ==
    IF st.found \/ nbrs = <<>> THEN st
    ELSE IF Head(nbrs).neighbor \in st.visited
    THEN DepthFirst(es, Tail(nbrs), current, endId, st)
    ELSE LET nb == Head(nbrs)
             seen == [st EXCEPT
                        !.visited = st.visited \cup {nb.neighbor},
                        !.parent = MapSet(st.parent, nb.neighbor,
                                       [node |-> current, edgeId |-> nb.edgeId])]
         IN  IF nb.neighbor = endId
             THEN [seen EXCEPT !.found = TRUE]
             ELSE DepthFirst(es, Tail(nbrs), current, endId,
                      DepthFirst(es, Adj(es, nb.neighbor), nb.neighbor, endId, seen))

BfsDepthFirst(es, endId, st) ==
    DepthFirst(es, Adj(es, Head(st.queue)), Head(st.queue), endId, st)

\* lines 32-59: the loop over the queue
RECURSIVE Bfs(_, _, _)
Bfs(es, endId, st) ==
    IF st.found \/ st.queue = <<>> THEN st
    ELSE Bfs(es, endId,
             ScanNeighbors(Adj(es, Head(st.queue)), Head(st.queue), endId,
                           [st EXCEPT !.queue = Tail(st.queue)]))

\* a search that looks the two ends up before anything else
findShortestPathLookupFirst(es, startId, endId) ==
    IF ~AdjHas(es, startId) \/ ~AdjHas(es, endId)
    THEN [found |-> FALSE, nodeIds |-> <<>>, edgeIds |-> <<>>]
    ELSE IF startId = endId
    THEN [found |-> TRUE, nodeIds |-> <<startId>>, edgeIds |-> <<>>]
    ELSE LET st == Bfs(es, endId, [visited |-> {startId}, parent |-> <<>>,
                                   queue |-> <<startId>>, found |-> FALSE])
         IN  IF st.found THEN Reconstruct(st.parent, endId, <<endId>>, <<>>)
             ELSE [found |-> FALSE, nodeIds |-> <<>>, edgeIds |-> <<>>]

NoPath == [found |-> FALSE, nodeIds |-> <<>>, edgeIds |-> <<>>]

findShortestPath(es, startId, endId) ==
    IF startId = endId
    THEN [found |-> TRUE, nodeIds |-> <<startId>>, edgeIds |-> <<>>]
    ELSE IF ~AdjHas(es, startId) \/ ~AdjHas(es, endId) THEN NoPath
    ELSE LET st == Bfs(es, endId, [visited |-> {startId}, parent |-> <<>>,
                                   queue |-> <<startId>>, found |-> FALSE])
         IN  IF st.found THEN Reconstruct(st.parent, endId, <<endId>>, <<>>)
             ELSE NoPath

(***************************************************************************)
(* findShortestPath used on its own: handed one edge list and one pair of  *)
(* node ids.  The lists hold edges in both directions, two edges between   *)
(* the same nodes, a loop, and leave one node out of every edge.           *)
(***************************************************************************)
PathNodes == {"A", "B", "C", "D", "E"}

PathEdge(id, from, to) == [id |-> id, from |-> from, to |-> to, label |-> "p"]

PathEdges ==
    {PathEdge("ab", "A", "B"), PathEdge("ba", "B", "A"),
     PathEdge("ab2", "A", "B"), PathEdge("bc", "B", "C"),
     PathEdge("dc", "D", "C"), PathEdge("ac", "A", "C"),
     PathEdge("cc", "C", "C")}

EdgeLists(pool) == UNION {[1..n -> pool] : n \in 0..MaxEdges}

InitPathOnly ==
    /\ store = <<>>
    /\ quota = LARGE_QUOTA
    /\ now = 0
    /\ ticks = 0
    /\ inflight = <<>>
    /\ table = DEPTH_CONFIG
    /\ InitRun
    /\ InitCache
    /\ InitResp
    /\ InitSparql
    /\ InitSearch
    /\ arg \in {[fn |-> "findShortestPath", edges |-> es, startId |-> a, endId |-> b] :
                  es \in EdgeLists(PathEdges), a \in PathNodes, b \in PathNodes}
    /\ result = NoArg

FindPath ==
    /\ arg.fn = "findShortestPath"
    /\ result = NoArg
    /\ result' = [fn |-> "findShortestPath",
                  path |-> findShortestPath(arg.edges, arg.startId, arg.endId)]
    /\ UNCHANGED <<envVars, runVars, histVars, cacheVars, respVars, sparqlVars,
                   searchVars, arg>>

NextPath == FindPath

SpecPath == InitPathOnly /\ [][NextPath]_vars

(***************************************************************************)
(* utils/consolidateEdges.ts.  Node ids and labels are strings, held as    *)
(* sequences of characters; the Map is a sequence of [key, value] in       *)
(* insertion order.                                                        *)
(***************************************************************************)
\* a key made of the source alone
EdgeKeyFromOnly(edge) == edge.from

\* line 21: `${edge.from}-${edge.to}`
EdgeKey(edge) == edge.from \o <<"-">> \o edge.to

\* Array.prototype.join(', ')
RECURSIVE Join(_)
Join(labels) ==
    IF labels = <<>> THEN <<>>
    ELSE IF Len(labels) = 1 THEN labels[1]
    ELSE labels[1] \o <<",", " ">> \o Join(Tail(labels))

\* a merge that forgets to count
MergeIntoUncounted(existing, edge) ==
    [existing EXCEPT !.labels = Append(existing.labels, edge.label),
                     !.label = Join(Append(existing.labels, edge.label))]

\* lines 25-29: push the label, count, rebuild the display label
MergeInto(existing, edge) ==
    [existing EXCEPT !.labels = Append(existing.labels, edge.label),
                     !.count = existing.count + 1,
                     !.label = Join(Append(existing.labels, edge.label))]

\* lines 32-36: { ...edge, labels: [edge.label], count: 1 }
NewEntry(edge) ==
    [id |-> edge.id, from |-> edge.from, to |-> edge.to, label |-> edge.label,
     arrows |-> edge.arrows, labels |-> <<edge.label>>, count |-> 1]

\* lines 19-38: the loop over the edges
RECURSIVE Consolidate(_, _)
Consolidate(es, edgeMap) ==
    IF es = <<>> THEN edgeMap
    ELSE LET edge == Head(es)
             key == EdgeKey(edge)
             at == {i \in 1..Len(edgeMap) : edgeMap[i].key = key}
         IN  IF at # {}
             THEN LET i == CHOOSE x \in at : TRUE
                  IN  Consolidate(Tail(es),
                          [edgeMap EXCEPT ![i].value = MergeInto(edgeMap[i].value, edge)])
             ELSE Consolidate(Tail(es),
                      Append(edgeMap, [key |-> key, value |-> NewEntry(edge)]))

\* line 40: Array.from(edgeMap.values())
consolidateEdges(es) ==
    LET edgeMap == Consolidate(es, <<>>)
    IN  [i \in 1..Len(edgeMap) |-> edgeMap[i].value]

\* a test that takes a node without entry for hidden
shouldHideEdgeListed(edge, nodeVisibilityMap) ==
    LET fromVisible == edge.from \in DOMAIN nodeVisibilityMap
                       /\ nodeVisibilityMap[edge.from]
        toVisible == edge.to \in DOMAIN nodeVisibilityMap
                     /\ nodeVisibilityMap[edge.to]
    IN  ~fromVisible \/ ~toVisible

\* Map.get(key) !== false
NotFalse(m, key) == key \notin DOMAIN m \/ m[key] # FALSE

\* lines 46-55
shouldHideEdge(edge, nodeVisibilityMap) ==
    LET fromVisible == NotFalse(nodeVisibilityMap, edge.from)
        toVisible == NotFalse(nodeVisibilityMap, edge.to)
    IN  ~fromVisible \/ ~toVisible

(***************************************************************************)
(* consolidateEdges and shouldHideEdge used on their own.  The node ids    *)
(* include one that holds the separator of the key.                        *)
(***************************************************************************)
ViewIds == {<<"a">>, <<"b">>, <<"a", "-", "a">>}
ViewLabels == {<<"k">>, <<"l">>}

ViewEdges ==
    {[from |-> f, to |-> t, label |-> l, arrows |-> "to"] :
        f \in ViewIds, t \in ViewIds, l \in ViewLabels}

\* the edges of a list carry distinct ids
WithIds(es) ==
    [i \in 1..Len(es) |->
        [id |-> <<"e", i>>, from |-> es[i].from, to |-> es[i].to,
         label |-> es[i].label, arrows |-> es[i].arrows]]

VisibilityMaps == UNION {[ids -> BOOLEAN] : ids \in SUBSET ViewIds}

\* connections as the merge loop of generateGraph gets them: identifiers of
\* one and two digits, a source that is no identifier, a label with a hyphen
IdSources == {Q1, <<"Q", "1", "1">>, <<"Q", "1", "-", "Q", "2">>}
IdTargets == {Q2, <<"Q", "1", "2">>, Q3}
IdLabels == {<<"k">>, <<"Q", "3", "-", "k">>}
IdConnections ==
    {[source |-> src, target |-> tgt, label |-> l] :
        src \in IdSources, tgt \in IdTargets, l \in IdLabels}

InitViewOnly ==
    /\ store = <<>>
    /\ quota = LARGE_QUOTA
    /\ now = 0
    /\ ticks = 0
    /\ inflight = <<>>
    /\ table = DEPTH_CONFIG
    /\ InitRun
    /\ InitCache
    /\ InitResp
    /\ InitSparql
    /\ InitSearch
    /\ arg \in {[fn |-> "consolidateEdges", edges |-> WithIds(es)] :
                   es \in EdgeLists(ViewEdges)}
               \cup {[fn |-> "shouldHideEdge", edge |-> WithIds(<<e>>)[1],
                      nodeVisibilityMap |-> m] :
                         e \in ViewEdges, m \in VisibilityMaps}
               \cup {[fn |-> "edgeId", first |-> a, second |-> b] :
                         a \in IdConnections, b \in IdConnections}
    /\ result = NoArg

ConsolidateCall ==
    /\ arg.fn = "consolidateEdges"
    /\ result = NoArg
    /\ result' = [fn |-> "consolidateEdges", edges |-> consolidateEdges(arg.edges)]
    /\ UNCHANGED <<envVars, runVars, histVars, cacheVars, respVars, sparqlVars,
                   searchVars, arg>>

HideCall ==
    /\ arg.fn = "shouldHideEdge"
    /\ result = NoArg
    /\ result' = [fn |-> "shouldHideEdge",
                  hide |-> shouldHideEdge(arg.edge, arg.nodeVisibilityMap)]
    /\ UNCHANGED <<envVars, runVars, histVars, cacheVars, respVars, sparqlVars,
                   searchVars, arg>>

\* line 179 of generateGraph, for two connections
EdgeIdCall ==
    /\ arg.fn = "edgeId"
    /\ result = NoArg
    /\ result' = [fn |-> "edgeId",
                  first |-> EdgeId(arg.first.source, arg.first.target, arg.first.label),
                  second |-> EdgeId(arg.second.source, arg.second.target,
                                    arg.second.label)]
    /\ UNCHANGED <<envVars, runVars, histVars, cacheVars, respVars, sparqlVars,
                   searchVars, arg>>

NextView ==
    \/ ConsolidateCall
    \/ HideCall
    \/ EdgeIdCall

SpecView == InitViewOnly /\ [][NextView]_vars

(***************************************************************************)
(* hooks/useSearch.ts: search.  A call runs to its return or to its await  *)
(* of searchEntities; the response arrives in a later step.  The signal of *)
(* the controller is handed to nobody, so abort() stops no request and no  *)
(* AbortError is raised.                                                   *)
(***************************************************************************)
minChars == 2

SearchQueries == {<<"a">>, <<"a", "b">>, <<"c", "d">>}

\* what searchEntities answers to a query
SearchData(q) == <<[qid |-> Q1, label |-> q]>>

\* lines 58-62: finally { if (abortController.current === currentRequestController) }
Finally(flag, current, own) == IF current = own THEN FALSE ELSE flag

\* lines 27-48: search(searchQuery) up to its return or its await
SearchCall ==
    /\ issued < MaxSearches
    /\ \E q \in SearchQueries :
          /\ issued' = issued + 1
          /\ aborted' = IF abortController # 0 THEN aborted \cup {abortController}
                        ELSE aborted
          /\ IF Len(q) < minChars
             THEN /\ results' = <<>>
                  /\ isSearching' = FALSE
                  /\ searchError' = <<>>
                  /\ lastApplied' = [by |-> issued + 1, latest |-> TRUE]
                  /\ UNCHANGED <<abortController, searches>>
             ELSE /\ isSearching' = TRUE
                  /\ searchError' = <<>>
                  /\ abortController' = issued + 1
                  /\ searches' = searches \cup {[id |-> issued + 1, query |-> q]}
                  /\ UNCHANGED <<results, lastApplied>>
    /\ UNCHANGED <<envVars, runVars, histVars, cacheVars, respVars, sparqlVars, pureVars>>

\* lines 48-49, 58-62: searchEntities resolves
SearchResolve ==
    /\ \E r \in searches :
          /\ searches' = searches \ {r}
          /\ results' = SearchData(r.query)
          /\ isSearching' = Finally(isSearching, abortController, r.id)
          /\ lastApplied' = [by |-> r.id, latest |-> r.id = issued]
    /\ UNCHANGED <<envVars, runVars, histVars, cacheVars, respVars, sparqlVars, pureVars,
                   searchError, abortController, aborted, issued>>

\* lines 50-62: searchEntities rejects
SearchReject ==
    /\ \E r \in searches :
          /\ searches' = searches \ {r}
          /\ searchError' = <<"Autocomplete failed">>
          /\ results' = <<>>
          /\ isSearching' = Finally(isSearching, abortController, r.id)
          /\ lastApplied' = [by |-> r.id, latest |-> r.id = issued]
    /\ UNCHANGED <<envVars, runVars, histVars, cacheVars, respVars, sparqlVars, pureVars,
                   abortController, aborted, issued>>

InitSearchOnly ==
    /\ store = <<>>
    /\ quota = LARGE_QUOTA
    /\ now = 0
    /\ ticks = 0
    /\ inflight = <<>>
    /\ table = DEPTH_CONFIG
    /\ InitRun
    /\ InitCache
    /\ InitResp
    /\ InitSparql
    /\ InitSearch
    /\ InitPure

NextSearch ==
    \/ SearchCall
    \/ SearchResolve
    \/ SearchReject

SpecSearch == InitSearchOnly /\ [][NextSearch]_vars

(***************************************************************************)
(* Properties of generateGraph.                                            *)
(***************************************************************************)
Triple(x) == <<x.source, x.target, x.label>>
EdgeTriple(e) == <<e.from, e.to, e.label>>
EdgesOf(t) == {i \in 1..Len(edges) : EdgeTriple(edges[i]) = t}
LevelRunning == pc \in {"batch", "fetchWait", "sleep"}
\* the layer's connections have been merged into the nodes and edges
Merged == pc \in {"layer", "done"} /\ currentDepth >= 1
Count(arr, x) == Cardinality({i \in 1..Len(arr) : arr[i] = x})
IsPrefix(a, b) == Len(a) <= Len(b) /\ SubSeq(b, 1, Len(a)) = a

\* what C1 says of one state
C1_State ==
    /\ \A i, j \in 1..Len(edges) :
          EdgeTriple(edges[i]) = EdgeTriple(edges[j]) => i = j
    /\ Merged =>
          \A k \in 1..Len(allNewConnections) :
              Cardinality(EdgesOf(Triple(allNewConnections[k]))) = 1

\* C1: no two edges of the edge list have the same (from, to, label); every
\* connection that has been merged, however often it arrived (in one batch,
\* in several, from the cache and from the query), has exactly one edge; and
\* an edge, once in the list, stays, so a later level adds no second one.
C1_EdgeDedup ==
    /\ []C1_State
    /\ [][IsPrefix(edges, edges')]_vars

\* a finished run in which one batch returned the same triple from the cache
\* and from the query
C1_Witness ==
    /\ pc = "done"
    /\ lastBatch.queried
    /\ ~lastBatch.failed
    /\ Len(lastBatch.connections) > Len(lastBatch.cached)
    /\ \E i \in 1..Len(lastBatch.cached) :
          \E j \in (Len(lastBatch.cached) + 1)..Len(lastBatch.connections) :
              Triple(lastBatch.connections[i]) = Triple(lastBatch.connections[j])
    /\ Len(edges) >= 1

\* C2: at most one transport request of the run is outstanding, the run
\* waits for it, and a batch query of level d+1 is outstanding only when
\* every level up to d is finished: all its selected identifiers fetched,
\* every dispatch returned, its connections merged.
C2_Sequential ==
    /\ Len(inflight) <= 1
    /\ \A i \in 1..Len(inflight) :
          /\ inflight[i].kind = "lookup" => pc = "resolveWait"
          /\ inflight[i].kind = "batch" =>
                /\ pc = "fetchWait"
                /\ inflight[i].level = currentDepth + 1
                /\ Len(levelsDone) = currentDepth
    /\ \A k \in 1..Len(levelsDone) :
          /\ levelsDone[k].level = k
          /\ levelsDone[k].fetched = levelsDone[k].selected
          /\ Count([i \in 1..Len(levelsDone[k].log) |-> levelsDone[k].log[i].ev],
                   "dispatch")
               = Count([i \in 1..Len(levelsDone[k].log) |-> levelsDone[k].log[i].ev],
                       "return")

\* a batch query of the second level is outstanding
C2_Witness ==
    /\ Len(inflight) = 1
    /\ inflight[1].kind = "batch"
    /\ inflight[1].level = 2

\* the steps of a level: a dispatch is the first step or follows a 500 ms
\* delay that follows a return; a return follows a dispatch; a delay follows
\* a return
LogOk(log) ==
    \A i \in 1..Len(log) :
        /\ log[i].ev = "dispatch" =>
              \/ i = 1
              \/ /\ i >= 3
                 /\ log[i - 1].ev = "delay"
                 /\ log[i - 1].ms = BATCH_RATE_LIMIT
                 /\ log[i - 2].ev = "return"
        /\ log[i].ev = "return" => i >= 2 /\ log[i - 1].ev = "dispatch"
        /\ log[i].ev = "delay" => i >= 2 /\ log[i - 1].ev = "return"

C4_LayerBound ==
    /\ LevelRunning =>
          LET config == getDepthConfig(currentDepth + 1) IN
          /\ Range(candidates) \cap processedIds = {}
          /\ Len(toProcess) = Min(Len(candidates), config.max_nodes_per_layer)
          /\ \A x \in Range(toProcess) : Count(toProcess, x) <= Count(candidates, x)
          /\ IsPrefix(fetchedIds, toProcess)
          /\ Len(lastBatch.batch) <= config.batch_size
    /\ \A k \in 1..Len(levelsDone) :
          /\ Len(levelsDone[k].fetched)
               = Min(Len(levelsDone[k].candidates), getDepthConfig(k).max_nodes_per_layer)
          /\ Len(levelsDone[k].fetched) <= getDepthConfig(k).max_nodes_per_layer

\* a level whose candidates were cut down is being fetched
C4_Witness ==
    /\ pc = "fetchWait"
    /\ Len(candidates) > Len(toProcess)
    /\ Len(toProcess) = getDepthConfig(currentDepth + 1).max_nodes_per_layer

\* what C5 says of one state: the identifiers selected at the finished
\* levels are in the processed set, and none of them is selected or fetched
\* at a later level
C5_State ==
    /\ \A k \in 1..Len(levelsDone) :
          /\ Range(levelsDone[k].selected) \subseteq processedIds
          /\ \A j \in 1..Len(levelsDone) :
                j > k => Range(levelsDone[j].fetched)
                            \cap Range(levelsDone[k].selected) = {}
          /\ LevelRunning =>
                (Range(toProcess) \cup Range(fetchedIds))
                    \cap Range(levelsDone[k].selected) = {}

\* C5: the processed set only grows, and an identifier selected at a level
\* is never passed to fetchBatchConnections at a later level.
C5_NoReexpansion ==
    /\ []C5_State
    /\ [][processedIds \subseteq processedIds']_vars

\* the second level returned a connection to an identifier of the first
C5_Witness ==
    /\ pc = "done"
    /\ Len(levelsDone) = 2
    /\ \E k \in 1..Len(allNewConnections) :
          allNewConnections[k].target \in Range(levelsDone[1].selected)

\* C6: past validation a run only fails when no seed identifier exists once
\* the names are resolved; with a seed it never fails; a batch whose query
\* failed returns its cached connections and nothing else.
C6_FailureAbsorbed ==
    /\ (validated /\ pc = "failed") =>
          /\ error = ERR_NO_SEED
          /\ initialEntityIds = {}
          /\ nameIdx > Len(names)
          /\ levelsDone = <<>>
    /\ (validated /\ initialEntityIds # {}) => pc # "failed"
    /\ lastBatch.failed => lastBatch.connections = lastBatch.cached

\* a run whose batch query failed has returned its graph
C6_Witness ==
    /\ pc = "done"
    /\ lastBatch.queried
    /\ lastBatch.failed

\* what the validation of generateGraph rejects, read off the request
BadList(has, list) ==
    has /\ \/ Len(list) = 0
           \/ Len(list) > MAX_ENTITIES
           \/ \E i \in 1..Len(list) : list[i] = NonString
           \/ \A i \in 1..Len(list) : Trim(list[i]) = <<>>
BadIdentifier(req) ==
    req.hasQids /\ \E i \in 1..Len(req.qids) :
        Trim(req.qids[i]) # <<>> /\ ~isValidQid(ToUpperCase(Trim(req.qids[i])))
BadDepth(req) ==
    \/ ~req.depth.isNum
    \/ req.depth.twice < 2 * MIN_DEPTH
    \/ req.depth.twice >= 2 * (MAX_DEPTH + 1)
BadName(req) ==
    req.hasNames /\ \E i \in 1..Len(req.names) :
        req.names[i] # NonString /\ Len(Trim(req.names[i])) > MAX_NAME_LENGTH
Rejected ==
    /\ pc = "failed"
    /\ ~validated
    /\ error \notin {"", ERR_NO_SEED}
    /\ queries = 0
    /\ inflight = <<>>

\* C7 as claimed: any input that fails validation, a name that fails
\* sanitization included, fails the call before any query.
C7_AsClaimed ==
    (pc # "idle" /\ (\/ BadList(request.hasNames, request.names)
                     \/ BadList(request.hasQids, request.qids)
                     \/ BadIdentifier(request)
                     \/ BadDepth(request)
                     \/ (~request.hasNames /\ ~request.hasQids)
                     \/ BadName(request)))
        => Rejected

\* C7, amended: a bad entity list, identifier or depth fails the call before
\* any query; a name that fails sanitization does not: no query is issued
\* for it and it resolves to nothing.
C7_ValidationFirst ==
    /\ (pc # "idle" /\ (\/ BadList(request.hasNames, request.names)
                        \/ BadList(request.hasQids, request.qids)
                        \/ BadIdentifier(request)
                        \/ BadDepth(request)
                        \/ (~request.hasNames /\ ~request.hasQids)))
          => Rejected
    /\ \A i \in 1..Len(inflight) :
          inflight[i].kind = "lookup" =>
              Len(Trim(inflight[i].ids[1])) <= MAX_NAME_LENGTH
    /\ (validated /\ BadName(request) /\ pc = "failed") => error = ERR_NO_SEED

\* a request with a malformed identifier has been rejected
C7_Witness ==
    /\ Rejected
    /\ BadIdentifier(request)
    /\ request.hasNames

\* the identifiers the request supplies, sanitized
SuppliedIds ==
    IF request.hasQids
    THEN {ToUpperCase(Trim(request.qids[i])) : i \in 1..Len(request.qids)}
    ELSE {}

\* C8: a node is flagged as seed iff its id is a supplied identifier or one
\* a name resolved to; one seed and one connection to a new target at depth
\* 1 give 2 nodes and 1 edge.
C8_SeedFlags ==
    /\ validated =>
          \A id \in DOMAIN nodes :
              /\ nodes[id].id = id
              /\ nodes[id].isInitialEntity <=> id \in SuppliedIds \cup resolved
    /\ (/\ pc = "done"
        /\ depth = 1
        /\ Cardinality(SuppliedIds \cup resolved) = 1
        /\ Len(allNewConnections) = 1
        /\ allNewConnections[1].target \notin SuppliedIds \cup resolved)
          => /\ Cardinality(DOMAIN nodes) = 2
             /\ Len(edges) = 1
             /\ nodes[allNewConnections[1].target].isInitialEntity = FALSE

\* one seed, depth 1, one connection to a new target: the run has returned
C8_Witness ==
    /\ pc = "done"
    /\ depth = 1
    /\ SuppliedIds = {Q1}
    /\ resolved = {}
    /\ Len(allNewConnections) = 1
    /\ allNewConnections[1].target = Q2
    /\ Cardinality(DOMAIN nodes) = 2

(***************************************************************************)
(* Properties of the persistent cache.                                     *)
(***************************************************************************)
\* the time-to-live of a key's namespace
TtlOf(key) == IF key[1] = QID_CACHE_PREFIX THEN QID_TTL ELSE CONN_TTL

\* the entries a step wrote
WrittenBy(before, after) ==
    {k \in DOMAIN after : k \notin DOMAIN before \/ after[k] # before[k]}

\* C10: an entry written at time t with time-to-live ttl expires at t + ttl;
\* a get that finds an entry at now <= its expiry returns the stored value
\* and leaves the store unchanged; a get that finds it at now > its expiry
\* returns absent and removes it, and nothing else, from the store.
C10_Expiry ==
    /\ [][\A k \in WrittenBy(store, store') :
              store'[k].expires = now + TtlOf(k)]_vars
    /\ [](lastGet.done =>
            /\ (lastGet.found /\ ~lastGet.late) =>
                  lastGet.hit /\ lastGet.value /\ lastGet.same
            /\ (lastGet.found /\ lastGet.late) =>
                  ~lastGet.hit /\ ~lastGet.kept /\ lastGet.others
            /\ ~lastGet.found => ~lastGet.hit /\ lastGet.same)

\* a get at the very instant the entry expires has returned its value
C10_Witness ==
    /\ lastGet.done
    /\ lastGet.found
    /\ lastGet.edge
    /\ lastGet.hit
    /\ lastGet.value
    /\ now > 0

(***************************************************************************)
(* Properties of the response cache.                                       *)
(***************************************************************************)
\* C9: a cachedFetch call with skipCache = false that starts less than 10
\* minutes after the last result was stored under its key returns that very
\* result object and does not invoke its producer; what the cache holds
\* under a key is the last result stored under it, with the time it was
\* stored.
C9_CacheHit ==
    /\ (lastReturn.done /\ ~lastReturn.skipCache
          /\ lastReturn.prev.had /\ lastReturn.prev.young) =>
          /\ ~lastReturn.invoked
          /\ lastReturn.data = lastReturn.prev.obj
    /\ \A c \in DOMAIN pending :
          ~pending[c].skipCache => ~(pending[c].prev.had /\ pending[c].prev.young)
    /\ \A k \in DOMAIN responseCache :
          k \in DOMAIN lastCompleted /\ responseCache[k] = lastCompleted[k]

\* a second call has returned the first call's object, one millisecond
\* before the ten minutes were over
C9_Witness ==
    /\ lastReturn.done
    /\ ~lastReturn.skipCache
    /\ ~lastReturn.invoked
    /\ lastReturn.call = 2
    /\ lastReturn.data = 1
    /\ \E k \in DOMAIN lastCompleted :
          lastCompleted[k].data = 1 /\ now - lastCompleted[k].timestamp = CACHE_TTL - 1

\* C11: a set returns in every case.  If the first write has room, the value
\* is stored and nothing else changes.  If only the write after removing the
\* expired engine entries has room, the value is stored, every expired
\* engine entry is gone and no unexpired one.  If only the write after
\* removing all engine entries has room, the value is stored and no other
\* engine entry is left.  If no write has room, the value is not stored.
\* Entries outside the two namespaces are never touched.
C11_SetFallback ==
    lastSet.done =>
        /\ lastSet.foreign
        /\ lastSet.intact
        /\ lastSet.writes = 1 =>
              lastSet.stored /\ ~lastSet.lostLive /\ ~lastSet.lostExpired
        /\ lastSet.writes = 2 =>
              lastSet.stored /\ ~lastSet.lostLive /\ ~lastSet.keptExpired
        /\ lastSet.writes = 3 => lastSet.stored /\ ~lastSet.keptEngine
        /\ lastSet.writes = 4 => lastSet.absent /\ ~lastSet.keptEngine

\* the second write of a set succeeded, an expired entry is gone and an
\* unexpired one is still there
C11_Witness ==
    /\ lastSet.done
    /\ lastSet.writes = 2
    /\ lastSet.stored
    /\ lastSet.lostExpired
    /\ lastSet.hadLive
    /\ lastSet.keptEngine

(***************************************************************************)
(* Properties of getWikidataId.                                            *)
(***************************************************************************)
\* a call for a name that passes sanitization
SaneLookup == lastLookup.state # "none" /\ lastLookup.sane

\* what both readings of C12 share: a query is issued iff the cache holds no
\* unexpired entry for the name; a query that failed wrote nothing and the
\* next call for the name queries again
C12_Common ==
    /\ SaneLookup => (lastLookup.queried <=> ~lastLookup.hadEntry)
    /\ \A n \in DOMAIN answers : answers[n].kind = "error" => answers[n].same
    /\ (SaneLookup /\ lastLookup.prev.kind = "error") => lastLookup.queried

\* C12 as claimed: after a lookup that returned no row, every call for the
\* name within 24 hours returns absent without a query.
C12_AsClaimed ==
    /\ C12_Common
    /\ (SaneLookup /\ lastLookup.prev.kind = "none" /\ lastLookup.prev.young) =>
          ~lastLookup.queried /\ lastLookup.absent

\* C12, amended: a lookup that returned no row stores the sentinel whenever
\* one of the three writes of set has room; while that entry stays in the
\* store, every call for the name within 24 hours returns absent without a
\* query.
C12_NegativeCache ==
    /\ C12_Common
    /\ \A n \in DOMAIN answers :
          (answers[n].kind = "none" /\ answers[n].room /\ answers[n].at = now
              /\ lastLookup.state = "returned" /\ lastLookup.name = n
              /\ lastLookup.queried)
            => answers[n].kept
    /\ (SaneLookup /\ lastLookup.prev.kind = "none" /\ lastLookup.prev.kept
          /\ lastLookup.prev.young) =>
          ~lastLookup.queried /\ lastLookup.absent

\* 24 hours to the millisecond after a lookup that returned no row, a call
\* for the name has returned absent without a query
C12_Witness ==
    /\ lastLookup.state = "returned"
    /\ lastLookup.sane
    /\ lastLookup.prev.kind = "none"
    /\ lastLookup.prev.kept
    /\ ~lastLookup.queried
    /\ lastLookup.absent
    /\ now - answers[lastLookup.name].at = QID_TTL

(***************************************************************************)
(* Properties of fetchBatchConnections.                                    *)
(***************************************************************************)
\* what both readings of C13 share: a call issues at most one query, and
\* none iff every identifier has an unexpired entry; a query that succeeded
\* with room for its writes leaves an entry for every identifier of the call
C13_Common ==
    /\ lastFetch.state # "none" =>
          /\ lastFetch.queries <= 1
          /\ lastFetch.queries = 0 <=> lastFetch.allHit
    /\ (written.has /\ written.room) => written.complete

C14_Degraded ==
    (lastFetch.state = "returned" /\ lastFetch.failed) =>
        /\ ~lastFetch.thrown
        /\ lastFetch.connections = lastFetch.storedBefore
        /\ lastFetch.quiet
        /\ inflight = <<>> =>
              /\ lastFetch.liveBefore \subseteq DOMAIN store
              /\ \A id \in Range(lastFetch.uncached) : ConnKey(id) \notin DOMAIN store

\* a call over three identifiers, two of them cached with connections, has
\* lost its query and returned the cached connections
C14_Witness ==
    /\ lastFetch.state = "returned"
    /\ lastFetch.failed
    /\ inflight = <<>>
    /\ Len(lastFetch.qids) = 3
    /\ Len(lastFetch.uncached) = 1
    /\ Len(lastFetch.connections) >= 2
    /\ lastFetch.connections[1].source = Q2
    /\ lastFetch.connections[Len(lastFetch.connections)].source = Q1

\* the nodes reached from the set ns by walks of at most k edges, either way
RECURSIVE Within(_, _, _)
Within(es, ns, k) ==
    IF k = 0 THEN ns
    ELSE LET near == Within(es, ns, k - 1)
         IN  near \cup {es[i].to : i \in {j \in 1..Len(es) : es[j].from \in near}}
                  \cup {es[i].from : i \in {j \in 1..Len(es) : es[j].to \in near}}

Connected(es, a, b) == b \in Within(es, {a}, Len(es))

\* the fewest edges of a walk from a to b
Distance(es, a, b) ==
    CHOOSE k \in 0..Len(es) : b \in Within(es, {a}, k)
                              /\ \A m \in 0..(k - 1) : b \notin Within(es, {a}, m)

\* edge id joins the nodes a and b in either direction
Joins(es, id, a, b) ==
    \E i \in 1..Len(es) :
        /\ es[i].id = id
        /\ \/ es[i].from = a /\ es[i].to = b
           \/ es[i].from = b /\ es[i].to = a

PathDone == arg.fn = "findShortestPath" /\ result # NoArg

\* C15: for start # end, a returned path is a walk of the undirected graph
\* from start to end (one more node than edges, edgeIds[i] joins nodeIds[i]
\* and nodeIds[i+1] in either direction) and no walk from start to end has
\* fewer edges.
C15_Shortest ==
    (PathDone /\ arg.startId # arg.endId /\ result.path.found) =>
        LET ns == result.path.nodeIds
            ids == result.path.edgeIds
        IN  /\ Len(ns) = Len(ids) + 1
            /\ ns[1] = arg.startId
            /\ ns[Len(ns)] = arg.endId
            /\ \A i \in 1..Len(ids) : Joins(arg.edges, ids[i], ns[i], ns[i + 1])
            /\ Connected(arg.edges, arg.startId, arg.endId)
            /\ Len(ids) = Distance(arg.edges, arg.startId, arg.endId)

\* a path of two edges was returned out of a list of three, and one edge of
\* the path is walked against its direction
C15_Witness ==
    /\ PathDone
    /\ result.path.found
    /\ Len(result.path.edgeIds) = 2
    /\ Len(arg.edges) = 3
    /\ \E i \in 1..2 : \E j \in 1..3 :
          /\ arg.edges[j].id = result.path.edgeIds[i]
          /\ arg.edges[j].from = result.path.nodeIds[i + 1]
          /\ arg.edges[j].to = result.path.nodeIds[i]
          /\ arg.edges[j].from # arg.edges[j].to

Appears(es, n) == \E i \in 1..Len(es) : n \in {es[i].from, es[i].to}

\* the result is absent when an end appears in no edge or the ends lie in
\* different components, and a path when both appear and are connected
C16_Common ==
    /\ (~Appears(arg.edges, arg.startId) \/ ~Appears(arg.edges, arg.endId)
        \/ ~Connected(arg.edges, arg.startId, arg.endId))
          => ~result.path.found
    /\ (Appears(arg.edges, arg.startId) /\ Appears(arg.edges, arg.endId)
        /\ Connected(arg.edges, arg.startId, arg.endId))
          => result.path.found

\* C16 as stated, for every pair: absent when the ends lie in different
\* components or one of them appears in no edge, a path when both appear and
\* are connected.
C16_AsClaimed == PathDone => C16_Common

\* C16: for start # end, findShortestPath returns absent when the ends lie in
\* different components of the undirected edge list or one of them appears in
\* no edge, and returns a path when both appear and are connected.
C16_Absent == (PathDone /\ arg.startId # arg.endId) => C16_Common

\* both ends appear in edges of a list of three, each in its own component
C16_Witness ==
    /\ PathDone
    /\ arg.startId # arg.endId
    /\ Len(arg.edges) = 3
    /\ Appears(arg.edges, arg.startId)
    /\ Appears(arg.edges, arg.endId)
    /\ ~Connected(arg.edges, arg.startId, arg.endId)
    /\ ~result.path.found

\* C17: findShortestPath(edges, A, A) returns the path with nodeIds = <<A>>
\* and no edges, for every A and every edge list, whether or not A occurs in
\* the list.
C17_SameNode ==
    (PathDone /\ arg.startId = arg.endId) =>
        result.path = [found |-> TRUE, nodeIds |-> <<arg.startId>>, edgeIds |-> <<>>]

\* the search was asked for a node that appears in no edge of a non-empty list
C17_Witness ==
    /\ PathDone
    /\ arg.startId = arg.endId
    /\ arg.edges # <<>>
    /\ ~Appears(arg.edges, arg.startId)
    /\ result.path.found

ConsolidateDone == arg.fn = "consolidateEdges" /\ result # NoArg

RECURSIVE SumCounts(_)
SumCounts(out) == IF out = <<>> THEN 0 ELSE Head(out).count + SumCounts(Tail(out))

\* C18: consolidateEdges returns no more edges than it was given, the counts
\* of the returned edges sum to the input length, and the labels list of each
\* returned edge is as long as its count.
C18_Conserved ==
    ConsolidateDone =>
        /\ Len(result.edges) <= Len(arg.edges)
        /\ SumCounts(result.edges) = Len(arg.edges)
        /\ \A j \in 1..Len(result.edges) :
              Len(result.edges[j].labels) = result.edges[j].count

\* three edges were consolidated into two, one of them counting two
C18_Witness ==
    /\ ConsolidateDone
    /\ Len(arg.edges) = 3
    /\ Len(result.edges) = 2
    /\ \E j \in 1..2 : result.edges[j].count = 2

SamePair(e, f) == e.from = f.from /\ e.to = f.to

\* the two edges write the same text from, "-", to
SameText(e, f) == e.from \o <<"-">> \o e.to = f.from \o <<"-">> \o f.to

\* the labels of the edges of es grouped with e, in the order of es
LabelsWith(es, e, Same(_, _)) ==
    LET group == SelectSeq(es, LAMBDA x : Same(x, e))
    IN  [i \in 1..Len(group) |-> group[i].label]

\* the labels written one after the other with ", " between them
CommaSeparated(labels) ==
    LET RECURSIVE upTo(_)
        upTo(n) == IF n = 1 THEN labels[1]
                   ELSE upTo(n - 1) \o <<",", " ">> \o labels[n]
    IN  upTo(Len(labels))

EdgeFields(o) ==
    [id |-> o.id, from |-> o.from, to |-> o.to, label |-> o.label, arrows |-> o.arrows]

\* the output holds one edge for each group of the input under Same, with
\* the group's labels in input order, their joined text as label, and every
\* field of the input edge when the group has one edge
GroupedBy(Same(_, _)) ==
    LET es == arg.edges
        out == result.edges
    IN  /\ \A i \in 1..Len(es) :
              Cardinality({j \in 1..Len(out) : Same(out[j], es[i])}) = 1
        /\ \A j \in 1..Len(out) :
              /\ \E i \in 1..Len(es) : Same(out[j], es[i])
              /\ out[j].labels = LabelsWith(es, out[j], Same)
              /\ out[j].label = CommaSeparated(out[j].labels)
              /\ Len(out[j].labels) = 1 =>
                    \E i \in 1..Len(es) : EdgeFields(out[j]) = es[i]

NoHyphen(es) ==
    \A i \in 1..Len(es) : \A k \in 1..Len(es[i].from \o es[i].to) :
        (es[i].from \o es[i].to)[k] # "-"

HideDone == arg.fn = "shouldHideEdge" /\ result # NoArg

\* the map holds an explicit false for the node
ExplicitFalse(m, n) == n \in DOMAIN m /\ m[n] = FALSE

\* C20: shouldHideEdge returns true exactly when the visibility map holds an
\* explicit false for the edge's from node or for its to node; an entry true
\* and a missing entry both count as visible, so the empty map hides no edge.
C20_Hidden ==
    HideDone =>
        /\ result.hide = (ExplicitFalse(arg.nodeVisibilityMap, arg.edge.from)
                          \/ ExplicitFalse(arg.nodeVisibilityMap, arg.edge.to))
        /\ arg.nodeVisibilityMap = <<>> => ~result.hide

\* an edge whose source has no entry and whose target is listed as visible
\* was shown, although another node of the map is hidden
C20_Witness ==
    /\ HideDone
    /\ ~result.hide
    /\ arg.edge.from \notin DOMAIN arg.nodeVisibilityMap
    /\ arg.edge.to \in DOMAIN arg.nodeVisibilityMap
    /\ \E n \in DOMAIN arg.nodeVisibilityMap : ~arg.nodeVisibilityMap[n]

\* C21 as stated: the response of a search call that is no longer the latest
\* call never replaces the displayed results, and once no call is waiting the
\* results are those of the latest call and the searching flag is false.
C21_AsClaimed ==
    /\ lastApplied.latest
    /\ (searches = {} /\ issued > 0) => (lastApplied.by = issued /\ ~isSearching)

\* two calls overlapped, the later one answered first and the earlier one
\* last: the results on display are those of the earlier query
C21_Witness ==
    /\ searches = {}
    /\ issued = 2
    /\ lastApplied.by = 1
    /\ aborted = {1}
    /\ abortController = 2
    /\ results = SearchData(<<"a", "b">>)
    /\ ~isSearching

\* the seed phase is over and level 1 is about to start
SeedsReady == pc = "layer" /\ currentDepth = 0

\* C22 as stated: the list of identifiers handed to level 1 holds every seed
\* identifier exactly once, for every request.
C22_AsClaimed ==
    SeedsReady =>
        /\ Range(currentLayerIds) = initialEntityIds
        /\ \A id \in initialEntityIds : Count(currentLayerIds, id) = 1

\* two supplied ids that differ in letter case only went through validation
\* and the initial layer holds their identifier twice
C22_Witness ==
    /\ SeedsReady
    /\ \E i, j \in 1..Len(request.qids) :
          /\ Trim(request.qids[i]) # Trim(request.qids[j])
          /\ ToUpperCase(Trim(request.qids[i])) = ToUpperCase(Trim(request.qids[j]))
    /\ \E id \in initialEntityIds : Count(currentLayerIds, id) = 2

\* a level has just been merged
LevelMerged == pc = "layer" /\ levelsDone # <<>>

\* C23 as stated: a connection that targets an identifier which is already a
\* node (here a seed, a node before every merge) leaves that node with the
\* connection's target label.
C23_AsClaimed ==
    LevelMerged =>
        \A i \in 1..Len(lastBatch.connections) :
            LET conn == lastBatch.connections[i]
            IN  conn.target \in initialEntityIds =>
                    nodes[conn.target].label = conn.target_label

\* every node of this state is a node of the next one, as it is
NodesKept ==
    \A id \in DOMAIN nodes : (id \in DOMAIN nodes' /\ nodes'[id] = nodes[id])

\* C23: during the crawl a connection that targets an identifier which is
\* already a node creates no second node and leaves the existing node as it
\* is, label included; the nodes are kept one per id.
C23_Rediscovery ==
    /\ [](\A id \in DOMAIN nodes : nodes[id].id = id)
    /\ [][(pc \in {"batch", AwaitBatch}) => NodesKept]_vars

\* a merged connection targets a seed under another label, and the seed still
\* carries the label it was given as a placeholder
C23_Witness ==
    /\ LevelMerged
    /\ \E i \in 1..Len(lastBatch.connections) :
          LET conn == lastBatch.connections[i]
          IN  /\ conn.target \in initialEntityIds
              /\ conn.target_label # conn.target
              /\ nodes[conn.target].label = conn.target
              /\ nodes[conn.target].isInitialEntity
              /\ \E j \in 1..Len(edges) : edges[j].to = conn.target

\* the run has returned or raised
RunOver == pc \in {"done", "failed"}

\* what C24 says of one state: at most depth levels, each with candidates
\* left to process; a run that returned used up its depth or found nothing
\* left to process; and no request is outstanding once the run is over
C24_State ==
    /\ Len(levelsDone) <= depth
    /\ \A k \in 1..Len(levelsDone) : levelsDone[k].candidates # <<>>
    /\ pc = "done" =>
          \/ Len(levelsDone) = depth
          \/ Unprocessed(currentLayerIds, processedIds) = <<>>
    /\ RunOver => inflight = <<>>

\* C24: every run of generateGraph returns or raises; it processes at most
\* depth levels, stops at the first level with no unprocessed candidate, and
\* sends no query after that.
C24_Terminates ==
    /\ <>RunOver
    /\ []C24_State
    /\ [][RunOver => (RunOver' /\ queries' = queries)]_vars

\* a run of depth 2 returned after one level, which found no new node, and
\* sent one query
C24_Witness ==
    /\ pc = "done"
    /\ depth = 2
    /\ Len(levelsDone) = 1
    /\ Unprocessed(currentLayerIds, processedIds) = <<>>
    /\ queries = 1

\* a batch of the table holds a whole layer
WholeLayerBatches(t) ==
    \A d \in DOMAIN t : t[d].batch_size >= t[d].max_nodes_per_layer

Events(log) == [i \in 1..Len(log) |-> log[i].ev]

SecondOverlapping(c, skipCache, overlap) ==
    /\ ~skipCache
    /\ \E f \in overlap :
          {i \in 1..(c - 1) : callKeys[i] = callKeys[c]} = {f}

\* C26: a second cachedFetch call under a key, made with skipCache = false
\* while the first call's producer is pending, waits for a producer of its
\* own and returns that producer's result, and each result stored replaces
\* the entry: the cache is left with the result that was stored last.
C26_NoCoalescing ==
    /\ []((lastReturn.done /\ SecondOverlapping(lastReturn.call,
                                  lastReturn.skipCache, lastReturn.overlap))
             => (lastReturn.invoked /\ lastReturn.data = lastReturn.call))
    /\ [][\A c \in DOMAIN pending :
             (c \notin DOMAIN pending' /\ lastReturn' # lastReturn) =>
                 /\ lastReturn'.call = c
                 /\ lastReturn'.data = c
                 /\ responseCache'[pending[c].key].data = c]_vars

\* the second call under the key started while the first was waiting and has
\* returned; the first call's producer completed last, and its result has
\* replaced the second call's in the cache
C26_Witness ==
    /\ started = 2
    /\ callKeys[1] = callKeys[2]
    /\ pending = <<>>
    /\ lastReturn.done
    /\ lastReturn.call = 1
    /\ lastReturn.invoked
    /\ lastReturn.replaced = 2
    /\ responseCache[callKeys[1]].data = 1

\* every connection merged so far has a source that was fetched at its level
SourcesAsQueried ==
    \A k \in 1..Len(levelsDone) :
        levelsDone[k].sources \subseteq Range(levelsDone[k].fetched)

\* C27: as long as the transport answers with rows of queried sources only,
\* both ends of every edge are ids of nodes, and every node that is not a
\* seed is the target of an edge; so it is in the result of the run.
C27_Integrity ==
    SourcesAsQueried =>
        /\ \A i \in 1..Len(edges) :
              edges[i].from \in DOMAIN nodes /\ edges[i].to \in DOMAIN nodes
        /\ \A id \in DOMAIN nodes :
              id \notin initialEntityIds => \E i \in 1..Len(edges) : edges[i].to = id

\* a run has returned a graph of two levels with a node that is no seed and
\* an edge between two nodes that are no seeds
C27_Witness ==
    /\ pc = "done"
    /\ SourcesAsQueried
    /\ Len(levelsDone) = 2
    /\ \E i \in 1..Len(edges) :
          edges[i].from \notin initialEntityIds /\ edges[i].to \notin initialEntityIds

EdgeIdDone == arg.fn = "edgeId" /\ result # NoArg

Canonical(conn) == isValidQid(conn.source) /\ isValidQid(conn.target)

\* C28: two connections whose sources and targets are identifiers (Q and
\* digits) and whose (source, target, label) differ get different edge ids,
\* also when a label holds a hyphen.
C28_Injective ==
    (EdgeIdDone /\ Canonical(arg.first) /\ Canonical(arg.second)
        /\ arg.first # arg.second)
      => result.first # result.second

\* two connections between identifiers, one with a hyphen in its label and
\* the other with a longer target, got different ids
C28_Witness ==
    /\ EdgeIdDone
    /\ Canonical(arg.first)
    /\ Canonical(arg.second)
    /\ arg.first.source = arg.second.source
    /\ arg.first.target = Q2
    /\ arg.second.target = <<"Q", "1", "2">>
    /\ arg.first.label = <<"Q", "3", "-", "k">>
    /\ result.first # result.second

\* C29: when a set returns, a get of its key at that instant gives the value
\* of the set or nothing, whichever write of the fallback was the last one;
\* it never gives the different value the key held before.
C29_NoStale ==
    lastSet.done => (lastSet.getHit => lastSet.getData)

\* no write of a set had room, the key held another unexpired value before
\* the call, and a get of the key finds nothing
C29_Witness ==
    /\ lastSet.done
    /\ lastSet.old
    /\ lastSet.writes = 4
    /\ ~lastSet.getHit

\* the candidates of the k-th level that its limit left out
LeftOut(k) == Range(levelsDone[k].candidates) \ Range(levelsDone[k].selected)

\* C30: an identifier that was a candidate of a level and was left out by
\* the level's limit stays a node and is passed to fetchBatchConnections at
\* no later level of the crawl, also when levels remain and a later
\* connection has it as its target.
C30_Abandoned ==
    \A k \in 1..Len(levelsDone) :
        \A id \in LeftOut(k) :
            /\ id \in DOMAIN nodes
            /\ id \notin Range(toProcess)
            /\ id \notin Range(fetchedIds)
            /\ \A j \in (k + 1)..Len(levelsDone) :
                  id \notin Range(levelsDone[j].fetched)

\* the first of two levels left out one of its candidates and found it
\* again as the target of a connection; the second level queried another
\* identifier
C30_Witness ==
    /\ pc = "done"
    /\ Len(levelsDone) = 2
    /\ SourcesAsQueried
    /\ levelsDone[2].fetched # <<>>
    /\ \E id \in LeftOut(1) :
          \E i \in 1..Len(edges) :
              edges[i].to = id /\ edges[i].from \in Range(levelsDone[1].fetched)
====
